---- MODULE Spec2Model ----
(***************************************************************************)
(* Holdings resolution pipeline of the portfolio analyzer:                 *)
(*   app/services/holdings_resolver.py   (orchestrator, fund resolver)     *)
(*   app/services/stock_info_service.py  (sector/country cache)            *)
(*   app/services/resolution_tracker.py  (process-wide progress record)    *)
(*   app/database.py, app/routes/upload.py (session, snapshot creation)    *)
(* One orchestration run is active at a time; a run is split into steps at *)
(* its external calls and commits.                                         *)
(***************************************************************************)
EXTENDS Integers, Sequences, FiniteSets, TLC

VARIABLES
    stored,     \* snapshot ids that have been uploaded
    db,         \* committed Holding rows (the relational store)
    sess,       \* Holding objects of the orchestrator's session (uncommitted view)
    cache,      \* StockInfoService.cache: symbol -> entry
    tracker,    \* resolution_tracker._current_status
    pc,         \* position of the orchestration thread
    run,        \* locals of the active resolve_snapshot_holdings call
    sweep,      \* locals of an active resolve_all_unresolved_holdings call
    lastCall,   \* history: the most recent resolver call or get_stock_info call
    hist,       \* history: per snapshot, whether a run raised / completed after it
    lastExit,   \* history: how the most recent run or sweep ended
    callers,    \* history: the components that have called the market-data provider
    orch,       \* the background threads that upload_csv has started
    logged,     \* history: the errors logged since the last start_resolution
    statusFile, \* resolution_status.json: <<>> while absent, else <<the saved status>>
    svc,        \* the rate-limit fields of the global StockInfoService
    clock,      \* the time, in seconds
    req,        \* per calling thread: its position inside get_stock_info
    calls,      \* history: the calls the market-data provider has received
    accounts,   \* broker_accounts rows, in id order
    snapshots,  \* portfolio_snapshots rows with their holdings, in id order
    view,       \* the dict the last get_aggregated_holdings call returned
    fundReq,    \* the arguments and provider answers of a resolve_holding call
    fundRes,    \* what that call returned
    typeReq,    \* the arguments and lookups of an AssetTypeResolver.resolve call
    typeRes,    \* what that call returned
    reply,      \* the response of the last upload_csv request
    started,    \* the snapshots upload_csv has started a resolution thread for
    csvRow,     \* the CSV row handed to a parser's _parse_row
    parsed      \* the holdings the parser made of it

\* the variables of concurrent uploads on the tracker
trackerVars == <<orch, logged, statusFile>>

\* the variables of concurrent get_stock_info calls
serviceVars == <<svc, clock, req, calls>>

\* the variables of the dashboard read model and of single resolver calls
\* the variables of the upload route and of single parser calls
ingestVars == <<reply, started, csvRow, parsed>>

analysisVars ==
    <<accounts, snapshots, view, fundReq, fundRes, typeReq, typeRes, ingestVars>>

vars == <<stored, db, sess, cache, tracker, pc, run, sweep, lastCall, hist, lastExit,
          callers, trackerVars, serviceVars, analysisVars>>

-----------------------------------------------------------------------------
(* Bounds and program constants *)

\* longest constituent table the fund-data provider returns in the model
MaxConstituents == 2

\* resolution_tracker.log_error keeps the last 50 errors
ErrorLogLimit == 50

\* resolve_snapshot_holdings commits every 10 parent holdings
CommitEvery == 10

\* most errors one run logs, and most progress updates it makes, when
\* uploads run concurrently
MaxLogged == 52

MaxUpdates == 2

\* stock_info_service.py: the hourly budget and the delay between requests
REQUESTS_PER_HOUR == 2000

MIN_DELAY_SECONDS == 2

\* _check_rate_limit: timedelta(hours=1) in seconds, and the request buffer
SecondsPerHour == 3600

RateLimitBuffer == 10

\* concurrent get_stock_info calls: the lookups made before the behaviour
\* starts (of three-variant tickers whose calls returned, or whose calls
\* raised, then of one-variant tickers), and the lookups made in it
WarmLookups == 662

WarmRaised == 665

WarmSingles == 3

MaxLookups == 2
\* the longest result list the fund screener returns
MaxResults == 2
\* the longest holdings table the fund-data provider returns
MaxRows == 2
\* the number of uploads the model follows
MaxSnapshots == 2

-----------------------------------------------------------------------------
(* The portfolio: two uploads.  Snapshot 1 holds an ETF and a stock,       *)
(* snapshot 2 a stock with an exchange suffix.                             *)

None == "None"

Snapshots == {1, 2}
Holdings  == {1, 2, 3}

SnapshotOf(h) == IF h = 3 THEN 2 ELSE 1

SymbolOf(h) == CASE h = 1 -> "VTI"
                 [] h = 2 -> "AAPL"
                 [] h = 3 -> "7203.T"

CsvAssetType(h) == IF h = 1 THEN "etf" ELSE "stock"

\* the other columns of the parsed CSV line of a holding, the price in cents
CsvLine(h) == CASE h = 1 -> [name |-> "VANGUARD TOTAL STOCK MKT", quantity |-> 40,
                             price |-> 25000, account_type |-> "ira"]
                [] h = 2 -> [name |-> "APPLE INC", quantity |-> 10,
                             price |-> 10000, account_type |-> "taxable"]
                [] h = 3 -> [name |-> "TOYOTA MOTOR", quantity |-> 5,
                             price |-> 3000, account_type |-> "taxable"]

ConstituentSymbols == {"AAPL", "7203.T"}

\* the keys of the cache: the tickers looked up and their normalized forms
Symbols == {"VTI", "AAPL", "7203.T", "BRK.B", "BRK-B"}

FundTypes == {"etf", "mutual_fund"}

HoldingsIn(sid) == {h \in Holdings : SnapshotOf(h) = sid}

RECURSIVE SortedSeq(_)
\* a set of holding ids as the list a query returns (by id)
SortedSeq(S) ==
    IF S = {} THEN <<>>
    ELSE LET m == CHOOSE x \in S : \A y \in S : x <= y
         IN  <<m>> \o SortedSeq(S \ {m})

Range(s) == {s[i] : i \in 1..Len(s)}

-----------------------------------------------------------------------------
(* StockInfoService (stock_info_service.py) *)

\* a symbol that is not a key of the cache dict
Absent == [sector |-> None, industry |-> None, country |-> None, geography |-> None]

US_COUNTRIES == {"United States", "USA", "US", "United States of America"}

DEVELOPED_INTERNATIONAL == {"United Kingdom", "Germany", "France", "Japan", "Canada"}

EMERGING_MARKETS == {"China", "India", "Brazil", "Taiwan", "South Korea"}

\* the exchange suffix of a ticker of the portfolio, None when it has none
TickerSuffix(symbol) ==
    CASE symbol = "7203.T" -> ".T"
      [] symbol = "BRK.B"  -> ".B"
      [] OTHER             -> None

TICKER_SUFFIX_COUNTRY(suffix) == IF suffix = ".T" THEN "Japan" ELSE None

\* the ticker with its dot replaced by a dash
DashForm(symbol) ==
    CASE symbol = "7203.T" -> "7203-T"
      [] symbol = "BRK.B"  -> "BRK-B"
      [] OTHER             -> symbol

\* the ticker with its dash replaced by a dot
DotForm(symbol) == IF symbol = "BRK-B" THEN "BRK.B" ELSE symbol

\* the ticker up to its first dash or dot
BaseForm(symbol) ==
    CASE symbol \in {"BRK.B", "BRK-B"} -> "BRK"
      [] symbol = "7203.T"             -> "7203"
      [] OTHER                         -> symbol

\* _normalize_ticker: tickers without a dot and tickers with a known
\* exchange suffix are kept as they are, a one-letter share class gets a dash
NormalizeTicker(symbol) ==
    IF TickerSuffix(symbol) = None THEN symbol
    ELSE IF TICKER_SUFFIX_COUNTRY(TickerSuffix(symbol)) # None THEN symbol
    ELSE DashForm(symbol)

\* a list with x appended unless it is in the list
AppendNew(seq, x) == IF \E i \in 1..Len(seq) : seq[i] = x THEN seq ELSE Append(seq, x)

\* _get_ticker_variants of the normalized ticker, with the original ticker
\* put first when it is not among them (lines 344-346)
TickerVariants(symbol) ==
    LET n  == NormalizeTicker(symbol)
        v1 == AppendNew(<<n>>, DotForm(n))
        v2 == AppendNew(v1, DashForm(n))
        v3 == AppendNew(v2, BaseForm(n))
    IN  IF \E i \in 1..Len(v3) : v3[i] = symbol THEN v3 ELSE <<symbol>> \o v3

InferCountryFromTicker(symbol) ==
    IF TickerSuffix(symbol) = None THEN None
    ELSE TICKER_SUFFIX_COUNTRY(TickerSuffix(symbol))

MapCountryToGeography(country) ==
    IF country = None \/ country = "Unknown" THEN "Unknown"
    ELSE IF country \in US_COUNTRIES THEN "US"
    ELSE IF country \in DEVELOPED_INTERNATIONAL THEN "International Developed"
    ELSE IF country \in EMERGING_MARKETS THEN "Emerging Markets"
    ELSE "International Developed"

PlaceholderData ==
    [sector |-> "Unknown", industry |-> "Unknown",
     country |-> "Unknown", geography |-> "Unknown"]

\* has_sector / has_country of _is_cache_complete
HasRealValue(x) == x # None /\ x # "" /\ x # "Unknown" /\ x # "N/A"

\* mutant: a cached entry counts as complete only with sector and country
IsCacheComplete_NeedsBoth(data) ==
    HasRealValue(data.sector) /\ HasRealValue(data.country)

IsCacheComplete(data) ==
    HasRealValue(data.sector) \/ HasRealValue(data.country)

\* what the market-data provider answers for a ticker when it answers
ProviderInfo(symbol) ==
    CASE symbol = "VTI"    -> [sector |-> "Large Blend", industry |-> "Unknown",
                               country |-> "Unknown"]
      [] symbol = "AAPL"   -> [sector |-> "Technology", industry |-> "Consumer Electronics",
                               country |-> "United States"]
      [] symbol = "7203.T" -> [sector |-> "Consumer Cyclical", industry |-> "Auto Manufacturers",
                               country |-> "Unknown"]
      [] OTHER             -> [sector |-> "Financial Services", industry |-> "Insurance",
                               country |-> "United States"]

\* outcomes of the provider for one get_stock_info call: every variant
\* answers usable data ("ok"), or every variant raises or answers nothing ("fail")
MarketOutcomes == {"ok", "fail"}

\* the result dict built from a usable provider answer (lines 380-407)
FetchedResult(symbol) ==
    LET info    == ProviderInfo(symbol)
        country == IF info.country = "Unknown" /\ InferCountryFromTicker(symbol) # None
                   THEN InferCountryFromTicker(symbol)
                   ELSE info.country
    IN  [sector |-> info.sector, industry |-> info.industry,
         country |-> country, geography |-> MapCountryToGeography(country)]

\* the result after all variants failed (lines 428-450)
FallbackResult(symbol) ==
    IF InferCountryFromTicker(symbol) # None
    THEN [sector |-> "Unknown", industry |-> "Unknown",
          country |-> InferCountryFromTicker(symbol),
          geography |-> MapCountryToGeography(InferCountryFromTicker(symbol))]
    ELSE PlaceholderData

\* mutant: any entry under the key is answered from, complete or not
CacheHit_AnyEntry(c, symbol) ==
    c[symbol] # Absent \/ c[NormalizeTicker(symbol)] # Absent

\* a cached entry that get_stock_info answers from (lines 332-341)
CacheHit(c, symbol) ==
    IsCacheComplete(c[symbol]) \/ IsCacheComplete(c[NormalizeTicker(symbol)])

\* get_stock_info(symbol): the returned dict, the cache afterwards, and
\* whether the external provider was called
get_stock_info(c, symbol, outcome) ==
    IF CacheHit(c, symbol)
    THEN [result |-> IF IsCacheComplete(c[symbol]) THEN c[symbol]
                     ELSE c[NormalizeTicker(symbol)],
          cache |-> c, called |-> FALSE]
    ELSE IF outcome = "ok" /\ IsCacheComplete(FetchedResult(symbol))
    THEN [result |-> FetchedResult(symbol),
          cache |-> [c EXCEPT ![symbol] = FetchedResult(symbol),
                              ![NormalizeTicker(symbol)] = FetchedResult(symbol)],
          called |-> TRUE]
    ELSE [result |-> FallbackResult(symbol),
          cache |-> [c EXCEPT ![symbol] = FallbackResult(symbol)],
          called |-> TRUE]

-----------------------------------------------------------------------------
(* HoldingsResolver (holdings_resolver.py) *)

RECURSIVE SeqsUpTo(_, _)
\* the non-empty sequences over S of length at most n
SeqsUpTo(S, n) ==
    IF n = 0 THEN {}
    ELSE {<<x>> : x \in S} \cup
         {<<x>> \o t : x \in S, t \in SeqsUpTo(S, n - 1)}

\* constituent tables the fund-data provider may return
FundTables == SeqsUpTo(ConstituentSymbols, MaxConstituents)

\* outcomes of one resolve_holding call against the fund-data provider
FundOutcomes == {"found", "empty", "notfound", "raised"}

\* row['weighting'] of the provider's table, in percent
Weighting(symbol) == IF symbol = "AAPL" THEN 60 ELSE 40

\* one record of the list resolve_holding builds (lines 178-184), the weight
\* in millionths and the value in cents; securityName is absent, so the name
\* is the ticker, and the enrichment keys are not in the dict yet
Constituent(symbol, total_value) ==
    [symbol |-> symbol, name |-> symbol,
     weight |-> Weighting(symbol) * 10000,
     value |-> (total_value * Weighting(symbol)) \div 100,
     sector |-> None, industry |-> None,
     country |-> None, geography |-> None]

\* the return value None of resolve_holding; a returned dict has
\* returned = "dict", and holdings = <<>> stands for 'holdings': None
ReturnedNone == [returned |-> "None", holdings |-> <<>>, verified_asset_type |-> None]

\* resolve_holding(symbol, asset_type, total_value): None, or a dict
\* {holdings, verified_asset_type}
resolve_holding(asset_type, total_value, outcome, table, verified) ==
    IF asset_type \notin FundTypes THEN ReturnedNone
    ELSE CASE outcome = "notfound" -> ReturnedNone
           [] outcome = "raised"   -> ReturnedNone
           [] outcome = "empty"    ->
                [returned |-> "dict", holdings |-> <<>>, verified_asset_type |-> verified]
           [] outcome = "found"    ->
                [returned |-> "dict",
                 holdings |-> [i \in 1..Len(table) |->
                                  Constituent(table[i], total_value)],
                 verified_asset_type |-> verified]

-----------------------------------------------------------------------------
(* Holding rows (models.py, upload.py).  The underlying_holdings column  *)
(* is a list of constituent records; <<>> is the NULL column.              *)

\* the Holding that store_portfolio_data creates for a CSV line
NewHolding(h) ==
    [symbol |-> SymbolOf(h),
     name |-> CsvLine(h).name,
     quantity |-> CsvLine(h).quantity,
     price |-> CsvLine(h).price,
     total_value |-> CsvLine(h).quantity * CsvLine(h).price,
     account_type |-> CsvLine(h).account_type,
     asset_type |-> CsvAssetType(h),
     underlying_holdings |-> <<>>,
     underlying_parsed |-> FALSE,
     info_fetched |-> FALSE,
     sector |-> None, industry |-> None, country |-> None]

\* Holding.underlying_holdings_list (getter): NULL reads as the empty list
underlying_holdings_list(row) == row.underlying_holdings

\* mutant: storing the constituents also revalues the fund as their sum
SetUnderlyingHoldingsList_Revalued(row, value) ==
    [row EXCEPT !.underlying_holdings = value,
                !.total_value = value[1].value]

\* Holding.underlying_holdings_list (setter): an empty list is stored as NULL
SetUnderlyingHoldingsList(row, value) ==
    [row EXCEPT !.underlying_holdings = value]

\* session.commit(): the session's rows of the snapshot become the stored rows
Commit(d, s, sid) ==
    [h \in Holdings |-> IF SnapshotOf(h) = sid THEN s[h] ELSE d[h]]

-----------------------------------------------------------------------------
(* ResolutionTracker (resolution_tracker.py) *)

IdleStatus ==
    [is_running |-> FALSE, snapshot_id |-> 0, current_step |-> None,
     parent_symbols_total |-> 0, parent_symbols_processed |-> 0,
     underlying_symbols_total |-> 0, underlying_symbols_processed |-> 0,
     cached_hits |-> 0, api_calls |-> 0, errors |-> <<>>]

\* line 388: the rough estimate of constituents per fund
EstimatedPerFund == 100

start_resolution(sid, parent_total, underlying_total) ==
    [is_running |-> TRUE, snapshot_id |-> sid, current_step |-> "initializing",
     parent_symbols_total |-> parent_total, parent_symbols_processed |-> 0,
     underlying_symbols_total |-> underlying_total, underlying_symbols_processed |-> 0,
     cached_hits |-> 0, api_calls |-> 0, errors |-> <<>>]

\* _save_status: the whole status is written to STATUS_FILE
_save_status(t) == <<t>>

\* mutant: the status loaded at start-up is marked as not running
_load_status_Reset(file) ==
    IF file = <<>> THEN IdleStatus ELSE [file[1] EXCEPT !.is_running = FALSE]

\* _load_status: the file's content, if the file exists, replaces the
\* module's initial status
_load_status(file) == IF file = <<>> THEN IdleStatus ELSE file[1]

\* a keyword argument of update_progress that the caller leaves out
NotPassed == 0 - 1

\* update_progress, lines 131-136: the counters a call passes are stored
Counted(t, parent_processed, underlying_processed, underlying_total) ==
    [t EXCEPT !.parent_symbols_processed =
                  IF parent_processed = NotPassed THEN @ ELSE parent_processed,
              !.underlying_symbols_processed =
                  IF underlying_processed = NotPassed THEN @ ELSE underlying_processed,
              !.underlying_symbols_total =
                  IF underlying_total = NotPassed THEN @ ELSE underlying_total]

\* update_progress(step, ..., cached=False): every call counts as a cache
\* hit or as an API call
update_progress(t, step, cached) ==
    [t EXCEPT !.current_step = step,
              !.cached_hits = IF cached THEN @ + 1 ELSE @,
              !.api_calls = IF cached THEN @ ELSE @ + 1]

\* the last n entries of a list (errors[-50:])
LastN(s, n) == IF Len(s) <= n THEN s ELSE SubSeq(s, Len(s) - n + 1, Len(s))

\* mutant: the list is cut to its first entries
log_error_KeepsOldest(t, symbol, error) ==
    LET all == Append(t.errors, [symbol |-> symbol, error |-> error])
    IN  [t EXCEPT !.errors = IF Len(all) <= ErrorLogLimit THEN all
                             ELSE SubSeq(all, 1, ErrorLogLimit)]

log_error(t, symbol, error) ==
    [t EXCEPT !.errors = LastN(Append(t.errors, [symbol |-> symbol, error |-> error]),
                               ErrorLogLimit)]

RECURSIVE log_errors(_, _, _)
\* log_error for each symbol of a list, in order
log_errors(t, symbols, error) ==
    IF symbols = <<>> THEN t
    ELSE log_errors(log_error(t, Head(symbols), error), Tail(symbols), error)

complete_resolution(t, success) ==
    [t EXCEPT !.is_running = FALSE,
              !.current_step = IF success THEN "complete" ELSE "failed"]

-----------------------------------------------------------------------------
(* ResolutionOrchestrator: resolve_snapshot_holdings and its helpers *)

\* mutant: the info_fetched flag is not consulted
NeedsInfo_Always(row) == TRUE

\* `not h.info_fetched` (the phase 2 filter and the guard of
\* fetch_stock_info_for_holding)
NeedsInfo(row) == ~row.info_fetched

\* mutant: the filter forgets the underlying_parsed flag
IsUnresolvedFund_IgnoresFlag(row) == row.asset_type \in FundTypes

\* `h.asset_type in ['etf', 'mutual_fund'] and not h.underlying_parsed`
IsUnresolvedFund(row) == row.asset_type \in FundTypes /\ ~row.underlying_parsed

\* mutant: every fund of the snapshot is resolved again
EtfMfHoldings_AllFunds(s, sid) ==
    SortedSeq({h \in HoldingsIn(sid) : s[h].asset_type \in FundTypes})

\* etf_mf_holdings
EtfMfHoldings(s, sid) ==
    SortedSeq({h \in HoldingsIn(sid) : IsUnresolvedFund(s[h])})

\* holdings_needing_info
HoldingsNeedingInfo(s, sid) ==
    SortedSeq({h \in HoldingsIn(sid) : NeedsInfo(s[h])})

\* mutant: phase 3 enriches only the funds this run resolved
EtfMfWithUnderlying_ThisRunOnly(s, sid) ==
    SortedSeq({h \in HoldingsIn(sid) :
                 /\ h \in Range(run.etf_mf)
                 /\ s[h].asset_type \in FundTypes
                 /\ underlying_holdings_list(s[h]) # <<>>})

\* etf_mf_with_underlying
EtfMfWithUnderlying(s, sid) ==
    SortedSeq({h \in HoldingsIn(sid) :
                 /\ s[h].asset_type \in FundTypes
                 /\ underlying_holdings_list(s[h]) # <<>>})

\* `existing_sector and existing_sector not in [None, 'Unknown', '', 'NOT SET']`
HasSectorData(u) == u.sector \notin {None, "Unknown", "", "NOT SET"}

\* `holding.id in results`: resolve_multiple_holdings keeps truthy results only
InResults(res) == res.returned = "dict"

\* mutant: a fund the resolver returned None for stays unresolved
StoredRow_RetryOnFailure(row, res) ==
    IF InResults(res)
    THEN LET r1 == IF res.holdings # <<>>
                   THEN SetUnderlyingHoldingsList(row, res.holdings)
                   ELSE row
             r2 == IF /\ res.verified_asset_type # None
                      /\ res.verified_asset_type # r1.asset_type
                   THEN [r1 EXCEPT !.asset_type = res.verified_asset_type]
                   ELSE r1
         IN  [r2 EXCEPT !.underlying_parsed = TRUE]
    ELSE row

\* mutant: a fund whose constituents were stored is not marked as parsed
StoredRow_ListWithoutFlag(row, res) ==
    IF InResults(res)
    THEN LET r1 == IF res.holdings # <<>>
                   THEN SetUnderlyingHoldingsList(row, res.holdings)
                   ELSE row
             r2 == IF /\ res.verified_asset_type # None
                      /\ res.verified_asset_type # r1.asset_type
                   THEN [r1 EXCEPT !.asset_type = res.verified_asset_type]
                   ELSE r1
         IN  [r2 EXCEPT !.underlying_parsed = (res.holdings = <<>>)]
    ELSE [row EXCEPT !.underlying_parsed = TRUE]

\* the body of the loop over etf_mf_holdings that stores the results
StoredRow(row, res) ==
    IF InResults(res)
    THEN LET r1 == IF res.holdings # <<>>
                   THEN SetUnderlyingHoldingsList(row, res.holdings)
                   ELSE row
             r2 == IF /\ res.verified_asset_type # None
                      /\ res.verified_asset_type # r1.asset_type
                   THEN [r1 EXCEPT !.asset_type = res.verified_asset_type]
                   ELSE r1
         IN  [r2 EXCEPT !.underlying_parsed = TRUE]
    ELSE [row EXCEPT !.underlying_parsed = TRUE]

\* mutant: info_fetched is set only when the lookup obtained a real value
fetch_stock_info_for_holding_RetryOnUnknown(row, c, symbol, outcome) ==
    IF ~NeedsInfo(row)
    THEN [row |-> row, cache |-> c, looked |-> FALSE, called |-> FALSE, result |-> Absent]
    ELSE LET g == get_stock_info(c, symbol, outcome)
         IN  [row |-> [row EXCEPT !.sector = g.result.sector,
                                  !.industry = g.result.industry,
                                  !.country = g.result.country,
                                  !.info_fetched = IsCacheComplete(g.result)],
              cache |-> g.cache, looked |-> TRUE, called |-> g.called,
              result |-> g.result]

\* fetch_stock_info_for_holding: get_stock_info always returns a non-empty
\* dict and catches the provider's exceptions itself, so the copy branch is
\* the one taken
fetch_stock_info_for_holding(row, c, symbol, outcome) ==
    IF ~NeedsInfo(row)
    THEN [row |-> row, cache |-> c, looked |-> FALSE, called |-> FALSE, result |-> Absent]
    ELSE LET g == get_stock_info(c, symbol, outcome)
         IN  [row |-> [row EXCEPT !.sector = g.result.sector,
                                  !.industry = g.result.industry,
                                  !.country = g.result.country,
                                  !.info_fetched = TRUE],
              cache |-> g.cache, looked |-> TRUE, called |-> g.called,
              result |-> g.result]

\* mutant: enrichment also replaces the name by the looked-up symbol's industry
EnrichedConstituent_Renamed(u, info) ==
    [u EXCEPT !.name = info.industry,
              !.sector = info.sector, !.industry = info.industry,
              !.country = info.country, !.geography = info.geography]

\* one constituent of fetch_sector_info_for_underlying_holdings_with_tracking
EnrichedConstituent(u, info) ==
    [u EXCEPT !.sector = info.sector, !.industry = info.industry,
              !.country = info.country, !.geography = info.geography]

\* every holding of the snapshot has both flags set
FlagsSet(d, sid) ==
    \A h \in HoldingsIn(sid) :
        /\ d[h].info_fetched
        /\ d[h].asset_type \in FundTypes => d[h].underlying_parsed

\* every stored constituent of the snapshot has sector and country written
ConstituentsWritten(d, sid) ==
    \A h \in HoldingsIn(sid) :
        \A i \in 1..Len(d[h].underlying_holdings) :
            /\ d[h].underlying_holdings[i].sector # None
            /\ d[h].underlying_holdings[i].country # None

FullyResolved(d, sid) == FlagsSet(d, sid) /\ ConstituentsWritten(d, sid)

\* every stored constituent of the snapshot has a known sector
ConstituentsKnown(d, sid) ==
    \A h \in HoldingsIn(sid) :
        \A i \in 1..Len(d[h].underlying_holdings) :
            HasSectorData(d[h].underlying_holdings[i])

NoRun ==
    [sid |-> 0,
     etf_mf |-> <<>>, rIdx |-> 0,
     results |-> [h \in Holdings |-> ReturnedNone],
     outcome |-> [h \in Holdings |-> "-"],
     need |-> <<>>, nIdx |-> 0,
     got |-> [h \in Holdings |-> Absent],
     funds |-> <<>>, fIdx |-> 0, ulist |-> <<>>, uIdx |-> 0,
     svcCache |-> [x \in Symbols |-> Absent],
     flagsStart |-> FALSE, knownStart |-> FALSE,
     fundCalled |-> FALSE, marketCalled |-> FALSE,
     extCalls |-> 0, cacheServed |-> 0]

NoSweep == [active |-> FALSE, queue |-> {}, selected |-> {}, crashed |-> {}]

NoCall ==
    [kind |-> "none", holding |-> 0, stored_flag |-> FALSE,
     symbol |-> None, before |-> Absent, called |-> FALSE, result |-> Absent]

NoExit == [kind |-> "none", sid |-> 0, selected |-> {}, crashed |-> {}]

\* where the run goes when phase 2 is over (lines 470-498)
AfterPhase2(r, s, c) ==
    LET funds == EtfMfWithUnderlying(s, r.sid)
    IN  IF funds = <<>>
        THEN [pc |-> "complete", run |-> r]
        ELSE [pc |-> "underlying_info",
              run |-> [r EXCEPT !.funds = funds,
                                !.ulist = underlying_holdings_list(s[funds[1]]),
                                !.svcCache = c]]

\* where the run goes when phase 1 is over (lines 449-456)
AfterPhase1(r, s, c) ==
    LET need == HoldingsNeedingInfo(s, r.sid)
    IN  IF need = <<>>
        THEN AfterPhase2(r, s, c)
        ELSE [pc |-> "parent_info", run |-> [r EXCEPT !.need = need]]

\* the update_progress call that announces a phase
Announce(t, step) ==
    IF step \in {"parent_info", "underlying_info"}
    THEN update_progress(t, step, FALSE) ELSE t

RECURSIVE TotalUnderlying(_, _)
\* lines 477-478: total_underlying of the funds phase 3 will enrich
TotalUnderlying(s, funds) ==
    IF funds = <<>> THEN 0
    ELSE Len(underlying_holdings_list(s[Head(funds)])) + TotalUnderlying(s, Tail(funds))

\* lines 454-455 and 479-482: the counters the announcing call passes
AnnounceCounted(t, nx, s) ==
    CASE nx.pc = "parent_info"     -> Counted(Announce(t, nx.pc), 0, NotPassed, NotPassed)
      [] nx.pc = "underlying_info" ->
            Counted(Announce(t, nx.pc), NotPassed, 0, TotalUnderlying(s, nx.run.funds))
      [] OTHER -> t

\* AssetTypeResolver.resolve as MerrillCSVParser.detect_asset_type calls it
\* (use_cache and use_yfinance true): the entries get_stock_info caches
\* carry no asset_type key, so step 1 never answers and step 2 asks the
\* provider for the quote type with yf.Ticker(symbol).info
detect_asset_type(c, h) ==
    [asset_type |-> CsvAssetType(h), source |-> "yfinance", called |-> TRUE]

-----------------------------------------------------------------------------
(* Concurrent callers: the threads upload_csv starts, and the rate-limit   *)
(* state of the global StockInfoService they share                         *)

Threads == {1, 2}

NoThread == [pc |-> "none", sid |-> 0]

\* StockInfoService.__init__: last_request_time = 0 is long before the
\* first call, the window starts at construction
NewService ==
    [last_request_time |-> 0 - MIN_DELAY_SECONDS, request_count |-> 0,
     request_window_start |-> 0]

NoRequest ==
    [pc |-> "idle", symbol |-> None, variants |-> <<>>, wake |-> 0,
     count |-> 0, outcome |-> None]

\* a time before the first call
NoTime == 0 - 1

\* the times of the two most recent provider calls, the provider calls and
\* the counted provider calls since the window started, the lookups begun
NoCalls == [prev |-> NoTime, last |-> NoTime, in_window |-> 0, counted |-> 0,
            lookups |-> 0]

-----------------------------------------------------------------------------
(* HoldingsResolver.resolve_holding in detail (holdings_resolver.py 29-208). *)
(* Money is in cents; a provider weighting is in units of 10^-5 percent,   *)
(* so the weight fraction weighting/100 is in units of 10^-7; a returned    *)
(* weight (6 decimals) is in units of 10^-6.                               *)

\* the exchanges _search_us_fund recognizes
us_exchanges == {"ARCX", "XNAS", "XNYS", "BATS", "NYSE", "NASDAQ"}

\* str.upper() on the tickers of the model
Upper(s) == IF s = "vti" THEN "VTI" ELSE s

\* the screener's listings: the fund on a recognized exchange, a
\* cross-listing of it elsewhere, another fund
Listings ==
    {[ticker |-> "VTI",   exchange |-> "ARCX", securityID |-> "F1"],
     [ticker |-> "vti",   exchange |-> "XLON", securityID |-> "F2"],
     [ticker |-> "VTIAX", exchange |-> "XNAS", securityID |-> "F3"]}

RECURSIVE SeqsWithin(_, _)
\* all sequences over S of length at most n, the empty one included
SeqsWithin(S, n) ==
    IF n = 0 THEN {<<>>}
    ELSE SeqsWithin(S, n - 1) \cup
         {Append(t, x) : t \in {u \in SeqsWithin(S, n - 1) : Len(u) = n - 1}, x \in S}

\* what one ms.screener_universe call does: raise, or return a result list
ScreenerAnswers ==
    {[raised |-> TRUE, results |-> <<>>]} \cup
    {[raised |-> FALSE, results |-> r] : r \in SeqsWithin(Listings, MaxResults)}

\* the answers to the second (mutual fund) search
FundSearchAnswers ==
    {[raised |-> TRUE, results |-> <<>>], [raised |-> FALSE, results |-> <<>>]} \cup
    {[raised |-> FALSE, results |-> <<l>>] : l \in {x \in Listings : Upper(x.ticker) = "VTI"}}

\* the return value None of _search_us_fund
NoMatch == [securityID |-> None, ticker |-> None, exchange |-> None,
            db_asset_type |-> None]

\* lines 51-67: the results whose ticker is the symbol, in order
TickerMatches(results, symbol, db_type) ==
    LET hits == SelectSeq(results, LAMBDA r : Upper(r.ticker) = symbol)
    IN  [i \in 1..Len(hits) |->
            [securityID |-> hits[i].securityID, ticker |-> hits[i].ticker,
             exchange |-> hits[i].exchange, db_asset_type |-> db_type]]

\* lines 75-82: the first match on a recognized exchange, else the first match
PickMatch(matches) ==
    LET us == SelectSeq(matches, LAMBDA m : m.exchange \in us_exchanges)
    IN  IF us # <<>> THEN us[1] ELSE matches[1]

\* _search_us_fund: the ETF search, then the mutual fund search; a search
\* that raises or has no ticker match falls through to the next
search_us_fund(symbol, fe, fo) ==
    LET etf == IF fe.raised THEN <<>> ELSE TickerMatches(fe.results, symbol, "etf")
        mf  == IF fo.raised THEN <<>> ELSE TickerMatches(fo.results, symbol, "mutual_fund")
    IN  IF etf # <<>> THEN PickMatch(etf)
        ELSE IF mf # <<>> THEN PickMatch(mf)
        ELSE NoMatch

\* rows of a holdings table: ticker ("" when missing), secId ("" when
\* missing), weighting (NoWeighting when missing), and whether reading the
\* row raises (a weighting that is not a number)
NoWeighting == 0 - 1000000000

TableRows ==
    {[ticker |-> "AAPL", secId |-> "S1", weighting |-> 500000,      bad |-> FALSE],
     [ticker |-> "MSFT", secId |-> "S2", weighting |-> 14,          bad |-> FALSE],
     [ticker |-> "",     secId |-> "S3", weighting |-> 0 - 250000,  bad |-> FALSE],
     [ticker |-> "",     secId |-> "",   weighting |-> 300000,      bad |-> FALSE],
     [ticker |-> "NVDA", secId |-> "S5", weighting |-> NoWeighting, bad |-> FALSE],
     [ticker |-> "TSLA", secId |-> "S6", weighting |-> 15000000,    bad |-> TRUE]}

\* what one fund.holdings(...) call does: raise, or return a table (None and
\* an empty DataFrame are the empty table)
HoldingsAnswers ==
    {[raised |-> TRUE, rows |-> <<>>]} \cup
    {[raised |-> FALSE, rows |-> r] : r \in SeqsWithin(TableRows, MaxRows)}

\* the answers to the second call, fund.holdings() without a type
AllHoldingsAnswers ==
    {[raised |-> TRUE, rows |-> <<>>], [raised |-> FALSE, rows |-> <<>>]} \cup
    {[raised |-> FALSE, rows |-> <<r>>] : r \in {x \in TableRows : x.ticker \in {"AAPL", ""}}}

\* a * b as base-10^4 limbs, for a, b < 10^8: <<high, middle, low>>
Limbs(a, b) ==
    LET a1 == a \div 10000
        a0 == a % 10000
        b1 == b \div 10000
        b0 == b % 10000
    IN  <<a1 * b1, a1 * b0 + a0 * b1, a0 * b0>>

\* round(x, n) of Python on the exact quotient q + r/d, 0 <= r < d: to
\* nearest, ties to even
RoundHalfEven(q, r, d) ==
    IF 2 * r > d THEN q + 1
    ELSE IF 2 * r < d THEN q
    ELSE IF q % 2 = 0 THEN q ELSE q + 1

\* round(a * b / 10^7) for 0 <= a, b < 10^8
RoundedProduct(a, b) ==
    LET p   == Limbs(a, b)
        mid == p[2] + (p[3] \div 10000)
        q   == p[1] * 10 + (mid \div 1000)
        r   == (mid % 1000) * 10000 + (p[3] % 10000)
    IN  RoundHalfEven(q, r, 10000000)

Abs(x) == IF x < 0 THEN 0 - x ELSE x

Sign(x) == IF x < 0 THEN 0 - 1 ELSE 1

\* line 181, round(weight_decimal, 6): from units of 10^-7 to units of 10^-6
RoundWeight(w) == Sign(w) * RoundHalfEven(Abs(w) \div 10, Abs(w) % 10, 10)

\* lines 176 and 182, round(float(total_value) * weight_decimal, 2), in cents
EstimatedValue(total_value, w) == Sign(w) * RoundedProduct(total_value, Abs(w))

\* lines 163-167: the ticker column, else the secId column
RowTicker(row) ==
    IF row.ticker # "" THEN Upper(row.ticker)
    ELSE IF row.secId # "" THEN Upper(row.secId)
    ELSE ""

\* line 170
RowWeight(row) == IF row.weighting = NoWeighting THEN 0 ELSE row.weighting

\* lines 162-188: a row is kept unless reading it raises, it has no ticker
\* or its weight is zero
RowKept(row) == ~row.bad /\ RowTicker(row) # "" /\ RowWeight(row) # 0

\* lines 178-184
UnderlyingEntry(row, total_value) ==
    [symbol |-> RowTicker(row),
     weight |-> RoundWeight(RowWeight(row)),
     value  |-> EstimatedValue(total_value, RowWeight(row))]

RECURSIVE InsertByWeight(_, _)
\* x placed after every element of s whose weight is at least x's
InsertByWeight(s, x) ==
    IF s = <<>> THEN <<x>>
    ELSE IF Head(s).weight >= x.weight THEN <<Head(s)>> \o InsertByWeight(Tail(s), x)
    ELSE <<x>> \o s

RECURSIVE SortByWeightDesc(_)
\* line 197: list.sort(key=weight, reverse=True), which is stable
SortByWeightDesc(s) ==
    IF s = <<>> THEN <<>>
    ELSE InsertByWeight(SortByWeightDesc(SubSeq(s, 1, Len(s) - 1)), s[Len(s)])

\* lines 159-197: the list built from a holdings table
UnderlyingOf(rows, total_value) ==
    LET kept == SelectSeq(rows, RowKept)
    IN  SortByWeightDesc([i \in 1..Len(kept) |-> UnderlyingEntry(kept[i], total_value)])

\* one call: the arguments and what the provider answers during it
FundCalls ==
    [symbol : {"VTI"}, asset_type : {"etf"}, total_value : {1000, 10000000},
     fe : ScreenerAnswers, fo : FundSearchAnswers,
     equity : HoldingsAnswers, all : AllHoldingsAnswers] \cup
    [symbol : {"AAPL"}, asset_type : {"stock"}, total_value : {1000},
     fe : {[raised |-> FALSE, results |-> <<>>]},
     fo : {[raised |-> FALSE, results |-> <<>>]},
     equity : {[raised |-> FALSE, rows |-> <<>>]},
     all : {[raised |-> FALSE, rows |-> <<>>]}]

NoFundCall ==
    [symbol |-> None, asset_type |-> None, total_value |-> 0,
     fe |-> [raised |-> FALSE, results |-> <<>>],
     fo |-> [raised |-> FALSE, results |-> <<>>],
     equity |-> [raised |-> FALSE, rows |-> <<>>],
     all |-> [raised |-> FALSE, rows |-> <<>>]]

\* returned is "None" or "dict"; has_list tells 'holdings' from None
NoFundResult ==
    [returned |-> "nothing", has_list |-> FALSE, holdings |-> <<>>,
     verified_asset_type |-> None, fund |-> NoMatch]

FundNone == [NoFundResult EXCEPT !.returned = "None"]

\* a dict with 'holdings': None (lines 140-143 and 192-195)
FundNoHoldings(fund) ==
    [NoFundResult EXCEPT !.returned = "dict", !.fund = fund,
                         !.verified_asset_type = fund.db_asset_type]

\* HoldingsResolver.resolve_holding(symbol, asset_type, total_value)
ResolveHoldingOf(c) ==
    IF c.asset_type \notin FundTypes THEN FundNone
    ELSE LET fund == search_us_fund(Upper(c.symbol), c.fe, c.fo)
         IN  IF fund = NoMatch THEN FundNone
             ELSE IF c.equity.raised THEN FundNone
             ELSE IF c.equity.rows = <<>> /\ c.all.raised THEN FundNone
             ELSE LET rows == IF c.equity.rows = <<>> THEN c.all.rows ELSE c.equity.rows
                      underlying == UnderlyingOf(rows, c.total_value)
                  IN  IF rows = <<>> \/ underlying = <<>> THEN FundNoHoldings(fund)
                      ELSE [FundNoHoldings(fund) EXCEPT !.has_list = TRUE,
                                                        !.holdings = underlying]

\* no get_aggregated_holdings call has returned since the database changed
NoView == [made |-> FALSE]

NoTypeCall == [symbol |-> None]

NoTypeResult == [asset_type |-> None, source |-> None]

-----------------------------------------------------------------------------
(* AssetTypeResolver.resolve (asset_type_resolver.py 56-171) *)

KNOWN_ETFS ==
    {"VOO", "VTI", "SPY", "QQQ", "IVV", "VEA", "VWO", "BND", "AGG",
     "VNQ", "VGT", "XLF", "XLE", "XLK", "XLV", "GLD", "SLV", "ARKK",
     "VT", "VXUS", "SCHB", "SCHX", "ITOT", "IEMG", "VIG", "VYM",
     "SCHD", "VUG", "VTV", "IJR", "IJH", "IWM", "IWF", "IWD",
     "EFA", "EEM", "TLT", "LQD", "HYG", "TIP", "SHY", "IEF"}

\* the symbols the CSV parsers pass; they drop rows without a symbol
\* (merrill_csv_parser.py 487-492) before they ask for the asset type
RawSymbols == {" vti ", "AAPL", "VFIAX", "BRK.B"}

\* line 77: symbol.upper().strip()
SymbolUpper(symbol) == IF symbol = " vti " THEN "VTI" ELSE symbol

\* len(symbol_upper)
SymbolLen(s) ==
    CASE s = "" -> 0
      [] s = "VTI" -> 3
      [] s = "AAPL" -> 4
      [] OTHER -> 5

\* symbol_upper.isalpha()
IsAlpha(s) == s \in {"VTI", "AAPL", "VFIAX"}

\* symbol_upper.endswith('X')
EndsWithX(s) == s = "VFIAX"

Descriptions ==
    {"", "Vanguard Total Stock Market ETF", "Fidelity 500 Index Fund",
     "Exchange Listed Index Fund", "US Treasury Bond", "Apple Inc"}

\* the keywords of lines 145-154 that occur in description.lower()
KeywordsIn(description) ==
    CASE description = "Vanguard Total Stock Market ETF" -> {"etf"}
      [] description = "Fidelity 500 Index Fund" -> {"fund", "index"}
      [] description = "Exchange Listed Index Fund" -> {"exchange", "fund", "index"}
      [] description = "US Treasury Bond" -> {"bond", "treasury"}
      [] OTHER -> {}

CsvTypeFields == {"", " ETF ", "Mutual Fund", "Equity", "Fixed Income", "Option", "Other"}

\* line 79: csv_type_field.lower().strip()
TypeLower(field) ==
    CASE field = " ETF " -> "etf"
      [] field = "Mutual Fund" -> "mutual fund"
      [] field = "Equity" -> "equity"
      [] field = "Fixed Income" -> "fixed income"
      [] field = "Option" -> "option"
      [] field = "Other" -> "other"
      [] OTHER -> ""

\* what yf.Ticker(symbol).info does: raise, or info with this quoteType
\* (None: no info or no quoteType)
QuoteOutcomes ==
    {"raise", None, "ETF", "MUTUALFUND", "EQUITY", "BOND", "OPTION", "INDEX"}

\* one call: the arguments, whether the service and yfinance could be
\* loaded, the asset_type of the symbol's cache entry (None: no entry or no
\* such key) and the answer of the quote-type lookup
TypeCalls ==
    [symbol : RawSymbols, description : Descriptions, csv_type_field : CsvTypeFields,
     use_cache : BOOLEAN, use_yfinance : BOOLEAN, service : BOOLEAN,
     cached : {None, "mutual_fund"}, yf : BOOLEAN, quote : QuoteOutcomes]

Resolved(asset_type, source) == [asset_type |-> asset_type, source |-> source]

\* lines 86-92
FromCache(c) ==
    IF c.use_cache /\ c.service /\ c.cached # None
    THEN Resolved(c.cached, "cache") ELSE NoTypeResult

\* lines 94-120: an exception and an unknown quoteType both fall through
FromYfinance(c) ==
    IF c.use_yfinance /\ c.yf /\ c.quote # "raise"
    THEN CASE c.quote = "ETF" -> Resolved("etf", "yfinance")
           [] c.quote = "MUTUALFUND" -> Resolved("mutual_fund", "yfinance")
           [] c.quote = "EQUITY" -> Resolved("stock", "yfinance")
           [] c.quote = "BOND" -> Resolved("bond", "yfinance")
           [] c.quote = "OPTION" -> Resolved("option", "yfinance")
           [] OTHER -> NoTypeResult
    ELSE NoTypeResult

\* lines 122-137
FromCsvType(c) ==
    LET type_lower == TypeLower(c.csv_type_field)
    IN  CASE type_lower \in {"stock", "equity"} -> Resolved("stock", "csv_type")
          [] type_lower = "etf" -> Resolved("etf", "csv_type")
          [] type_lower \in {"mutual fund", "mf"} -> Resolved("mutual_fund", "csv_type")
          [] type_lower \in {"bond", "bonds", "fixed income"} -> Resolved("bond", "csv_type")
          [] type_lower = "option" -> Resolved("option", "csv_type")
          [] OTHER -> NoTypeResult

\* lines 139-171
FromHeuristics(c) ==
    LET symbol_upper == SymbolUpper(c.symbol)
        kw == KeywordsIn(c.description)
    IN  IF symbol_upper \in KNOWN_ETFS THEN Resolved("etf", "known_list")
        ELSE IF "etf" \in kw \/ "exchange traded" \in kw THEN Resolved("etf", "description")
        ELSE IF "fund" \in kw /\ "exchange" \notin kw THEN Resolved("mutual_fund", "description")
        ELSE IF "index" \in kw /\ "fund" \in kw THEN Resolved("mutual_fund", "description")
        ELSE IF "bond" \in kw \/ "treasury" \in kw THEN Resolved("bond", "description")
        ELSE IF SymbolLen(symbol_upper) = 5 /\ EndsWithX(symbol_upper)
             THEN Resolved("mutual_fund", "pattern")
        ELSE IF SymbolLen(symbol_upper) <= 4 /\ IsAlpha(symbol_upper)
             THEN Resolved("stock", "pattern")
        ELSE Resolved("stock", "default")

\* the first of the results that is one
FirstResolved(results) ==
    LET hits == SelectSeq(results, LAMBDA r : r # NoTypeResult)
    IN  hits[1]

\* resolve with the CSV type field consulted before the quote-type lookup
resolve_CsvTypeFirst(c) ==
    IF SymbolUpper(c.symbol) = "" THEN Resolved("unknown", "no_symbol")
    ELSE FirstResolved(<<FromCache(c), FromCsvType(c), FromYfinance(c), FromHeuristics(c)>>)

\* AssetTypeResolver.resolve(symbol, description, csv_type_field, use_cache,
\* use_yfinance)
resolve(c) ==
    IF SymbolUpper(c.symbol) = "" THEN Resolved("unknown", "no_symbol")
    ELSE FirstResolved(<<FromCache(c), FromYfinance(c), FromCsvType(c), FromHeuristics(c)>>)

-----------------------------------------------------------------------------
(* The dashboard read model: store_portfolio_data (upload.py 243-329),      *)
(* get_latest_snapshots (db_utils.py 54-83) and HoldingsAggregator           *)
(* (holdings_aggregator.py).  Rows are in id order; an id is the position   *)
(* in `accounts` or `snapshots`.  Money is in cents.  The display fields    *)
(* name, price, average_price, allocation_pct and the two percentages are  *)
(* not carried.                                                            *)

\* (broker_name, account_number_last4) of the accounts CSVs are exported from
AccountKeys == {<<"merrill", "1111">>, <<"merrill", "2222">>, <<"fidelity", "3333">>}

\* export timestamps found in the CSV headers
SnapshotDates == {1, 2}

\* parsed_data['holdings'] of the CSV files uploaded
CsvFiles ==
    {<<[symbol |-> "AAPL", asset_type |-> "stock", quantity |-> 10, total_value |-> 100000],
       [symbol |-> "VTI", asset_type |-> "etf", quantity |-> 40, total_value |-> 1000000]>>,
     <<[symbol |-> "MSFT", asset_type |-> "stock", quantity |-> 1, total_value |-> 5000],
       [symbol |-> "VTIAX", asset_type |-> "mutual_fund", quantity |-> 1,
        total_value |-> 1000],
       [symbol |-> "SPAXX", asset_type |-> "cash", quantity |-> 1, total_value |-> 50000]>>}

\* upload.py 309-320: the Holding created for a parsed line
HoldingRow(line) ==
    [symbol |-> line.symbol, asset_type |-> line.asset_type, quantity |-> line.quantity,
     total_value |-> line.total_value, underlying_holdings |-> <<>>,
     underlying_parsed |-> FALSE]

\* upload.py 261-264: the ids of the accounts with this broker and number
AccountIds(accts, broker_name, last4) ==
    {a \in 1..Len(accts) : /\ accts[a].broker_name = broker_name
                           /\ accts[a].account_number_last4 = last4}

\* upload.py 266-276: the accounts after get-or-create
AccountsAfter(accts, key) ==
    IF AccountIds(accts, key[1], key[2]) # {} THEN accts
    ELSE Append(accts, [broker_name |-> key[1], account_number_last4 |-> key[2],
                        is_active |-> TRUE])

Least(S) == CHOOSE x \in S : \A y \in S : x <= y

Greatest(S) == CHOOSE x \in S : \A y \in S : y <= x

\* store_portfolio_data: <<accounts, snapshots>> after the commit
store_portfolio_data(accts, snaps, key, date, file) ==
    LET after == AccountsAfter(accts, key)
        id    == Least(AccountIds(after, key[1], key[2]))
    IN  <<after,
          Append(snaps, [broker_account_id |-> id, snapshot_date |-> date,
                         holdings |-> [k \in 1..Len(file) |-> HoldingRow(file[k])]])>>

\* the ids of the snapshots of an account
SnapshotsOf(snaps, a) == {i \in 1..Len(snaps) : snaps[i].broker_account_id = a}

\* db_utils.py 64-67: max(snapshot_date) grouped by account
MaxDate(snaps, a) == Greatest({snaps[i].snapshot_date : i \in SnapshotsOf(snaps, a)})

\* db_utils.py 70-81: the snapshots dated max_date of their account, for
\* active accounts
get_latest_snapshots(accts, snaps) ==
    SortedSeq({i \in 1..Len(snaps) :
                  /\ accts[snaps[i].broker_account_id].is_active
                  /\ snaps[i].snapshot_date = MaxDate(snaps, snaps[i].broker_account_id)})

RECURSIVE Concat(_)
\* the sequences of a sequence joined
Concat(ss) == IF ss = <<>> THEN <<>> ELSE Head(ss) \o Concat(Tail(ss))

RECURSIVE SumOf(_)
SumOf(ns) == IF ns = <<>> THEN 0 ELSE Head(ns) + SumOf(Tail(ns))

RECURSIVE Distinct(_)
\* the elements in order of first occurrence
Distinct(s) ==
    IF s = <<>> THEN <<>>
    ELSE LET d == Distinct(SubSeq(s, 1, Len(s) - 1))
         IN  IF \E i \in 1..Len(d) : d[i] = s[Len(s)] THEN d ELSE Append(d, s[Len(s)])

\* lines 106-109: the holdings of the snapshots in iteration order
HoldingRefs(snaps, ids) ==
    Concat([n \in 1..Len(ids) |->
               [k \in 1..Len(snaps[ids[n]].holdings) |-> [sid |-> ids[n], k |-> k]]])

RowAt(snaps, ref) == snaps[ref.sid].holdings[ref.k]

\* lines 130-137: the entry appended to data['brokers'] for one holding
BrokerEntry(accts, snaps, ref) ==
    LET account == accts[snaps[ref.sid].broker_account_id]
    IN  [broker |-> account.broker_name,
         account_last4 |-> account.account_number_last4,
         quantity |-> RowAt(snaps, ref).quantity,
         value |-> RowAt(snaps, ref).total_value]

\* lines 111-137 with one brokers entry per broker: a second holding of
\* the symbol at the same broker adds to the sums only
SymbolData_OneEntryPerBroker(accts, snaps, refs, symbol) ==
    LET mine  == SelectSeq(refs, LAMBDA r : RowAt(snaps, r).symbol = symbol)
        first == RowAt(snaps, mine[1])
        all   == [i \in 1..Len(mine) |-> BrokerEntry(accts, snaps, mine[i])]
    IN  [symbol |-> symbol,
         asset_type |-> first.asset_type,
         is_etf_or_mf |-> first.asset_type \in FundTypes,
         is_cash |-> first.asset_type = "cash",
         underlying_count |-> Len(underlying_holdings_list(first)),
         total_quantity |-> SumOf([i \in 1..Len(mine) |-> RowAt(snaps, mine[i]).quantity]),
         total_value |-> SumOf([i \in 1..Len(mine) |-> RowAt(snaps, mine[i]).total_value]),
         brokers |-> SelectSeq(all, LAMBDA e :
                        e = all[CHOOSE i \in 1..Len(all) :
                                   /\ all[i].broker = e.broker
                                   /\ \A j \in 1..(i - 1) : all[j].broker # e.broker])]

\* lines 111-137: the entry of symbol_data for one symbol
SymbolData(accts, snaps, refs, symbol) ==
    LET mine  == SelectSeq(refs, LAMBDA r : RowAt(snaps, r).symbol = symbol)
        first == RowAt(snaps, mine[1])
    IN  [symbol |-> symbol,
         asset_type |-> first.asset_type,
         is_etf_or_mf |-> first.asset_type \in FundTypes,
         is_cash |-> first.asset_type = "cash",
         underlying_count |-> Len(underlying_holdings_list(first)),
         total_quantity |-> SumOf([i \in 1..Len(mine) |-> RowAt(snaps, mine[i]).quantity]),
         total_value |-> SumOf([i \in 1..Len(mine) |-> RowAt(snaps, mine[i]).total_value]),
         brokers |-> [i \in 1..Len(mine) |-> BrokerEntry(accts, snaps, mine[i])]]

\* line 159: the sort key (is_cash, -total_value)
SortsBefore(x, y) ==
    \/ ~x.is_cash /\ y.is_cash
    \/ x.is_cash = y.is_cash /\ x.total_value > y.total_value

RECURSIVE InsertByKey(_, _)
InsertByKey(s, x) ==
    IF s = <<>> THEN <<x>>
    ELSE IF SortsBefore(x, Head(s)) THEN <<x>> \o s
    ELSE <<Head(s)>> \o InsertByKey(Tail(s), x)

RECURSIVE SortByKey(_)
\* line 159: list.sort, which is stable
SortByKey(s) ==
    IF s = <<>> THEN <<>>
    ELSE InsertByKey(SortByKey(SubSeq(s, 1, Len(s) - 1)), s[Len(s)])

\* _aggregate_by_symbol
aggregate_by_symbol(accts, snaps, ids) ==
    LET refs    == HoldingRefs(snaps, ids)
        symbols == Distinct([i \in 1..Len(refs) |-> RowAt(snaps, refs[i]).symbol])
    IN  SortByKey([i \in 1..Len(symbols) |-> SymbolData(accts, snaps, refs, symbols[i])])

\* line 45 with the cash holdings recognized by their symbol
CashHoldings_BySymbol(aggregated) == SelectSeq(aggregated, LAMBDA h : h.symbol = "CASH")

\* line 45
CashHoldings(aggregated) == SelectSeq(aggregated, LAMBDA h : h.asset_type = "cash")

\* line 46 with the funds that have no constituent list left out
InvestmentHoldings_ResolvedOnly(aggregated) ==
    SelectSeq(aggregated, LAMBDA h : /\ h.asset_type # "cash"
                                     /\ (h.is_etf_or_mf => h.underlying_count > 0))

\* line 46
InvestmentHoldings(aggregated) == SelectSeq(aggregated, LAMBDA h : h.asset_type # "cash")

\* lines 42, 48, 49
TotalValue(hs) == SumOf([i \in 1..Len(hs) |-> hs[i].total_value])

\* _get_direct_holdings: symbol -> value and quantity, cash excluded
get_direct_holdings(aggregated) ==
    LET kept == SelectSeq(aggregated, LAMBDA h : h.asset_type # "cash")
    IN  [s \in {kept[i].symbol : i \in 1..Len(kept)} |->
            LET h == CHOOSE x \in Range(kept) : x.symbol = s
            IN  [value |-> h.total_value, quantity |-> h.total_quantity]]

\* how .order_by(desc(snapshot_date)).first() breaks a tie between
\* snapshots of one account with the same date: the database decides
TieBreaks == {"lowest id", "highest id"}

\* lines 198-209: the snapshot looked up for one entry of holding['brokers']:
\* the first account with the broker's name, its newest snapshot
SnapshotForBroker(accts, snaps, broker_name, tie) ==
    LET named == {a \in 1..Len(accts) : accts[a].broker_name = broker_name}
    IN  IF named = {} THEN {}
        ELSE LET newest == {i \in SnapshotsOf(snaps, Least(named)) :
                               snaps[i].snapshot_date = MaxDate(snaps, Least(named))}
             IN  IF newest = {} THEN {}
                 ELSE IF tie = "lowest id" THEN {Least(newest)} ELSE {Greatest(newest)}

\* lines 196-214: the Holding rows queried for one fund of the aggregate
HoldingsObjs(accts, snaps, holding, tie) ==
    LET snapshot_ids ==
            UNION {SnapshotForBroker(accts, snaps, holding.brokers[i].broker, tie) :
                      i \in 1..Len(holding.brokers)}
    IN  SelectSeq(HoldingRefs(snaps, SortedSeq(snapshot_ids)),
                  LAMBDA r : RowAt(snaps, r).symbol = holding.symbol)

\* lines 216-239: what the rows of one fund add, one record per constituent
FundContributions(accts, snaps, holding, tie) ==
    LET objs == HoldingsObjs(accts, snaps, holding, tie)
    IN  Concat([n \in 1..Len(objs) |->
                   LET underlying_list == underlying_holdings_list(RowAt(snaps, objs[n]))
                   IN  [j \in 1..Len(underlying_list) |->
                           [symbol |-> underlying_list[j].symbol,
                            fund   |-> holding.symbol,
                            weight |-> underlying_list[j].weight,
                            value  |-> underlying_list[j].value]]])

\* _get_underlying_holdings: constituent symbol -> total value and sources
get_underlying_holdings(accts, snaps, aggregated, tie) ==
    LET funds == SelectSeq(aggregated, LAMBDA h : h.is_etf_or_mf)
        adds  == Concat([n \in 1..Len(funds) |->
                            FundContributions(accts, snaps, funds[n], tie)])
    IN  [s \in {adds[i].symbol : i \in 1..Len(adds)} |->
            LET mine == SelectSeq(adds, LAMBDA c : c.symbol = s)
            IN  [total_value |-> SumOf([i \in 1..Len(mine) |-> mine[i].value]),
                 sources |-> [i \in 1..Len(mine) |->
                                 [fund |-> mine[i].fund, weight |-> mine[i].weight,
                                  value |-> mine[i].value]]]]

\* _detect_overlaps
detect_overlaps(direct, underlying) ==
    [s \in (DOMAIN direct) \cap (DOMAIN underlying) |->
        [direct_value |-> direct[s].value,
         underlying_value |-> underlying[s].total_value,
         underlying_sources |-> underlying[s].sources]]

\* lines 27-39: the dict returned when there is no latest snapshot
EmptyView(ids) ==
    [made |-> TRUE, selected |-> ids,
     total_value |-> 0, total_investments |-> 0, total_cash |-> 0,
     holdings |-> <<>>, cash_holdings |-> <<>>, investment_holdings |-> <<>>,
     direct_holdings |-> <<>>, underlying_holdings |-> <<>>]

\* get_aggregated_holdings: the dict returned, with the ids of the snapshots
\* it was built from
get_aggregated_holdings(accts, snaps, tie) ==
    LET latest_snapshots == get_latest_snapshots(accts, snaps)
    IN  IF latest_snapshots = <<>> THEN EmptyView(latest_snapshots)
        ELSE LET aggregated  == aggregate_by_symbol(accts, snaps, latest_snapshots)
                 direct      == get_direct_holdings(aggregated)
                 underlying  == get_underlying_holdings(accts, snaps, aggregated, tie)
             IN  [made |-> TRUE, selected |-> latest_snapshots,
                  total_value |-> TotalValue(aggregated),
                  total_investments |-> TotalValue(InvestmentHoldings(aggregated)),
                  total_cash |-> TotalValue(CashHoldings(aggregated)),
                  holdings |-> aggregated,
                  cash_holdings |-> CashHoldings(aggregated),
                  investment_holdings |-> InvestmentHoldings(aggregated),
                  direct_holdings |-> direct,
                  underlying_holdings |-> underlying,
                  overlaps |-> detect_overlaps(direct, underlying)]

\* what the fund-data provider answers for the fund of the CSV files: its
\* table; nothing found; found as a mutual fund without holdings data
FundData ==
    {[fe |-> [raised |-> FALSE, results |-> <<[ticker |-> "VTI", exchange |-> "ARCX",
                                               securityID |-> "F1"],
                                              [ticker |-> "VTIAX", exchange |-> "XNAS",
                                               securityID |-> "F3"]>>],
      fo |-> [raised |-> FALSE, results |-> <<>>],
      equity |-> [raised |-> FALSE,
                  rows |-> <<[ticker |-> "AAPL", secId |-> "S1", weighting |-> 500000,
                              bad |-> FALSE],
                             [ticker |-> "MSFT", secId |-> "S2", weighting |-> 14,
                              bad |-> FALSE]>>],
      all |-> [raised |-> FALSE, rows |-> <<>>]],
     [fe |-> [raised |-> TRUE, results |-> <<>>],
      fo |-> [raised |-> FALSE, results |-> <<>>],
      equity |-> [raised |-> FALSE, rows |-> <<>>],
      all |-> [raised |-> FALSE, rows |-> <<>>]],
     [fe |-> [raised |-> FALSE, results |-> <<>>],
      fo |-> [raised |-> FALSE, results |-> <<[ticker |-> "VTI", exchange |-> "ARCX",
                                               securityID |-> "F1"],
                                              [ticker |-> "VTIAX", exchange |-> "XNAS",
                                               securityID |-> "F3"]>>],
      equity |-> [raised |-> FALSE, rows |-> <<>>],
      all |-> [raised |-> FALSE, rows |-> <<>>]]}

\* holdings_resolver.py 419-440: a fund row after the store loop, given
\* what resolve_holding returned for it
RowAfterResolution(row, result) ==
    IF result.returned = "dict"
    THEN [row EXCEPT
            !.underlying_holdings = IF result.has_list THEN result.holdings ELSE @,
            !.asset_type = IF result.verified_asset_type # None
                              /\ result.verified_asset_type # @
                           THEN result.verified_asset_type ELSE @,
            !.underlying_parsed = TRUE]
    ELSE [row EXCEPT !.underlying_parsed = TRUE]

\* holdings_resolver.py 385-386: the positions of the unresolved funds
UnresolvedFunds(snap) ==
    {k \in 1..Len(snap.holdings) : /\ snap.holdings[k].asset_type \in FundTypes
                                   /\ ~snap.holdings[k].underlying_parsed}

-----------------------------------------------------------------------------
(* Actions *)

\* no response sent yet
NoReply == [success |-> FALSE, status |-> 0, message |-> None]

\* no row handed to a parser yet
NoRow ==
    [parser |-> None, symbol |-> "", description |-> "", quantity |-> 0, value |-> 0,
     other_value |-> 0, price_col |-> 0, type |-> "", detected |-> None]

\* nothing parsed yet; row is what the row-level code made of the row (no
\* or one holding), holdings is parsed_data['holdings'] of a file with
\* this one row
NotParsed == [made |-> FALSE, row |-> <<>>, holdings |-> <<>>]

\* no upload request handled and no row parsed yet
IngestInit ==
    /\ reply = NoReply
    /\ started = {}
    /\ csvRow = NoRow
    /\ parsed = NotParsed

\* an empty database, no aggregation and no resolver call made yet
AnalysisInit ==
    /\ accounts = <<>>
    /\ snapshots = <<>>
    /\ view = NoView
    /\ fundReq = NoFundCall
    /\ fundRes = NoFundResult
    /\ typeReq = NoTypeCall
    /\ typeRes = NoTypeResult
    /\ IngestInit

\* the pipeline, the tracker and the service before any upload
BaseInit ==
    /\ stored = {}
    /\ db = [h \in Holdings |-> NewHolding(h)]
    /\ sess = [h \in Holdings |-> NewHolding(h)]
    /\ cache = [x \in Symbols |-> Absent]
    /\ tracker = IdleStatus
    /\ pc = "idle"
    /\ run = NoRun
    /\ sweep = NoSweep
    /\ lastCall = NoCall
    /\ hist = [sid \in Snapshots |-> "none"]
    /\ lastExit = NoExit
    /\ callers = {}
    /\ orch = [t \in Threads |-> NoThread]
    /\ logged = <<>>
    /\ statusFile = <<>>
    /\ svc = NewService
    /\ clock = 0
    /\ req = [t \in Threads |-> NoRequest]
    /\ calls = NoCalls

Init == BaseInit /\ AnalysisInit

\* store_portfolio_data: a CSV upload creates the snapshot's holdings with
\* both flags false
Upload(sid) ==
    /\ sid \notin stored
    /\ stored' = stored \cup {sid}
    /\ callers' = callers \cup
                    {"AssetTypeResolver" : h \in {x \in HoldingsIn(sid) :
                                                    detect_asset_type(cache, x).called}}
    /\ UNCHANGED <<db, sess, cache, tracker, pc, run, sweep, lastCall, hist, lastExit>>
    /\ UNCHANGED <<trackerVars, serviceVars, analysisVars>>

\* resolve_snapshot_holdings, lines 374-404: query, start_resolution
StartRun(sid) ==
    /\ pc = "idle"
    /\ sid \in stored
    /\ sweep.active => sid \in sweep.queue
    /\ LET etf == EtfMfHoldings(db, sid)
           r0  == [NoRun EXCEPT !.sid = sid, !.etf_mf = etf,
                                !.flagsStart = FlagsSet(db, sid),
                                !.knownStart = ConstituentsKnown(db, sid)]
           t0  == start_resolution(sid, Cardinality(HoldingsIn(sid)),
                                   EstimatedPerFund * Len(etf))
           nx  == IF etf # <<>> THEN [pc |-> "etf_resolution", run |-> r0]
                  ELSE AfterPhase1(r0, db, cache)
       IN  /\ pc' = nx.pc
           /\ run' = nx.run
           /\ tracker' = IF etf # <<>> THEN update_progress(t0, "etf_resolution", FALSE)
                         ELSE AnnounceCounted(t0, nx, db)
    /\ sess' = db
    /\ UNCHANGED <<stored, db, cache, sweep, lastCall, hist, lastExit, callers>>
    /\ UNCHANGED <<trackerVars, serviceVars, analysisVars>>

\* one iteration of resolve_multiple_holdings: a resolve_holding call
ResolveNext ==
    /\ pc = "etf_resolution"
    /\ run.rIdx < Len(run.etf_mf)
    /\ LET h == run.etf_mf[run.rIdx + 1]
       IN  \E outcome \in FundOutcomes :
           \E table \in (IF outcome = "found" THEN FundTables ELSE {<<>>}) :
           \E verified \in (IF outcome \in {"found", "empty"} THEN FundTypes ELSE {None}) :
              /\ run' = [run EXCEPT
                           !.rIdx = @ + 1,
                           !.results[h] = resolve_holding(sess[h].asset_type,
                                                          sess[h].total_value,
                                                          outcome, table, verified),
                           !.outcome[h] = outcome,
                           !.fundCalled = TRUE,
                           !.extCalls = @ + 1]
              /\ lastCall' = [NoCall EXCEPT !.kind = "fund", !.holding = h,
                                             !.stored_flag = db[h].underlying_parsed]
    /\ UNCHANGED <<stored, db, sess, cache, tracker, pc, sweep, hist, lastExit, callers>>
    /\ UNCHANGED <<trackerVars, serviceVars, analysisVars>>

\* the holdings of this run that are not in results
NotInResults(h) == ~InResults(run.results[h])

RECURSIVE actual_underlying_count(_, _)
\* lines 424-426: the constituents stored by the loop over etf_mf_holdings
actual_underlying_count(etf_mf, results) ==
    IF etf_mf = <<>> THEN 0
    ELSE (IF InResults(results[Head(etf_mf)]) THEN Len(results[Head(etf_mf)].holdings)
          ELSE 0) + actual_underlying_count(Tail(etf_mf), results)

\* mutant: the commit that ends phase 1 is missing
StoreResults_NoCommit ==
    /\ pc = "etf_resolution"
    /\ run.rIdx = Len(run.etf_mf)
    /\ LET s1     == [h \in Holdings |->
                        IF h \in Range(run.etf_mf)
                        THEN StoredRow(sess[h], run.results[h]) ELSE sess[h]]
           failed == SelectSeq(run.etf_mf, NotInResults)
           t1     == log_errors(tracker,
                                [i \in 1..Len(failed) |-> SymbolOf(failed[i])],
                                "Failed to resolve underlying holdings")
           nx     == AfterPhase1(run, s1, cache)
       IN  /\ sess' = s1
           /\ db' = db
           /\ tracker' = AnnounceCounted(
                            Counted(update_progress(t1, "etf_resolution", FALSE),
                                    NotPassed, NotPassed,
                                    actual_underlying_count(run.etf_mf, run.results)),
                            nx, s1)
           /\ pc' = nx.pc
           /\ run' = nx.run
    /\ UNCHANGED <<stored, cache, sweep, lastCall, hist, lastExit, callers>>
    /\ UNCHANGED <<trackerVars, serviceVars, analysisVars>>

\* lines 419-447: store the results, log the failures, commit
StoreResults ==
    /\ pc = "etf_resolution"
    /\ run.rIdx = Len(run.etf_mf)
    /\ LET s1     == [h \in Holdings |->
                        IF h \in Range(run.etf_mf)
                        THEN StoredRow(sess[h], run.results[h]) ELSE sess[h]]
           failed == SelectSeq(run.etf_mf, NotInResults)
           t1     == log_errors(tracker,
                                [i \in 1..Len(failed) |-> SymbolOf(failed[i])],
                                "Failed to resolve underlying holdings")
           nx     == AfterPhase1(run, s1, cache)
       IN  /\ sess' = s1
           /\ db' = Commit(db, s1, run.sid)
           /\ tracker' = AnnounceCounted(
                            Counted(update_progress(t1, "etf_resolution", FALSE),
                                    NotPassed, NotPassed,
                                    actual_underlying_count(run.etf_mf, run.results)),
                            nx, s1)
           /\ pc' = nx.pc
           /\ run' = nx.run
    /\ UNCHANGED <<stored, cache, sweep, lastCall, hist, lastExit, callers>>
    /\ UNCHANGED <<trackerVars, serviceVars, analysisVars>>

\* lines 458-467: one parent holding of phase 2, with the periodic commit
\* and the commit that ends the phase
FetchParent ==
    /\ pc = "parent_info"
    /\ LET h   == run.need[run.nIdx + 1]
           idx == run.nIdx + 1
       IN  \E outcome \in MarketOutcomes :
           LET f    == fetch_stock_info_for_holding(sess[h], cache, SymbolOf(h), outcome)
               s1   == [sess EXCEPT ![h] = f.row]
               last == idx = Len(run.need)
               r1   == [run EXCEPT !.nIdx = idx, !.got[h] = f.result,
                                   !.marketCalled = @ \/ f.called,
                                   !.extCalls = IF f.called THEN @ + 1 ELSE @,
                                   !.cacheServed = IF f.looked /\ ~f.called
                                                   THEN @ + 1 ELSE @]
               t1   == Counted(update_progress(tracker, "parent_info", FALSE),
                               idx, NotPassed, NotPassed)
               t2   == IF f.looked THEN update_progress(t1, "parent_info", FALSE)
                       ELSE t1
               nx   == IF last THEN AfterPhase2(r1, s1, f.cache)
                       ELSE [pc |-> "parent_info", run |-> r1]
           IN  /\ sess' = s1
               /\ cache' = f.cache
               /\ db' = IF last \/ idx % CommitEvery = 0
                        THEN Commit(db, s1, run.sid) ELSE db
               /\ lastCall' = IF f.looked
                              THEN [kind |-> "parent", holding |-> h,
                                    stored_flag |-> db[h].info_fetched,
                                    symbol |-> SymbolOf(h),
                                    before |-> cache[SymbolOf(h)],
                                    called |-> f.called, result |-> f.result]
                              ELSE lastCall
               /\ tracker' = AnnounceCounted(t2, nx, s1)
               /\ callers' = IF f.called THEN callers \cup {"StockInfoService"}
                             ELSE callers
               /\ pc' = nx.pc
               /\ run' = nx.run
    /\ UNCHANGED <<stored, sweep, hist, lastExit>>
    /\ UNCHANGED <<trackerVars, serviceVars, analysisVars>>

\* lines 485-495 and fetch_sector_info_for_underlying_holdings_with_tracking:
\* one constituent of phase 3; after the last constituent of a fund the
\* list is written back and committed
EnrichNext ==
    /\ pc = "underlying_info"
    /\ LET h == run.funds[run.fIdx + 1]
           i == run.uIdx + 1
           u == run.ulist[i]
       IN  \E outcome \in MarketOutcomes :
           LET skip  == HasSectorData(u)
               g     == get_stock_info(cache, u.symbol, outcome)
               ul    == IF skip THEN run.ulist
                        ELSE [run.ulist EXCEPT ![i] = EnrichedConstituent(u, g.result)]
               lastC == i = Len(run.ulist)
               lastF == lastC /\ run.fIdx + 1 = Len(run.funds)
               s1    == IF lastC THEN [sess EXCEPT ![h].underlying_holdings = ul]
                        ELSE sess
               called == run.marketCalled \/ (~skip /\ g.called)
               ext    == IF ~skip /\ g.called THEN run.extCalls + 1 ELSE run.extCalls
               served == IF ~skip /\ ~g.called THEN run.cacheServed + 1
                         ELSE run.cacheServed
               c1     == IF skip THEN cache ELSE g.cache
               is_cached == run.svcCache[u.symbol] # Absent
               processed_so_far ==
                   TotalUnderlying(sess, SubSeq(run.funds, 1, run.fIdx))
               global_idx == processed_so_far + i
           IN  /\ sess' = s1
               /\ cache' = c1
               /\ tracker' = Counted(update_progress(tracker, "underlying_info",
                                                     skip \/ is_cached),
                                     NotPassed, global_idx, NotPassed)
               /\ callers' = IF ~skip /\ g.called
                             THEN callers \cup {"StockInfoService"} ELSE callers
               /\ db' = IF lastC THEN Commit(db, s1, run.sid) ELSE db
               /\ lastCall' = IF skip THEN lastCall
                              ELSE [kind |-> "constituent", holding |-> h,
                                    stored_flag |-> FALSE,
                                    symbol |-> u.symbol,
                                    before |-> cache[u.symbol],
                                    called |-> g.called, result |-> g.result]
               /\ run' = IF lastF
                         THEN [run EXCEPT !.fIdx = @ + 1, !.uIdx = 0, !.ulist = <<>>,
                                          !.marketCalled = called,
                                          !.extCalls = ext, !.cacheServed = served]
                         ELSE IF lastC
                         THEN [run EXCEPT !.fIdx = @ + 1, !.uIdx = 0,
                                          !.ulist = underlying_holdings_list(
                                                        s1[run.funds[run.fIdx + 2]]),
                                          !.svcCache = c1,
                                          !.marketCalled = called,
                                          !.extCalls = ext, !.cacheServed = served]
                         ELSE [run EXCEPT !.uIdx = i, !.ulist = ul,
                                          !.marketCalled = called,
                                          !.extCalls = ext, !.cacheServed = served]
               /\ pc' = IF lastF THEN "complete" ELSE "underlying_info"
    /\ UNCHANGED <<stored, sweep, hist, lastExit>>
    /\ UNCHANGED <<trackerVars, serviceVars, analysisVars>>

\* lines 499-508: complete_resolution(success=True), then db_session.__exit__
\* commits and the call returns
Complete ==
    /\ pc = "complete"
    /\ tracker' = complete_resolution(tracker, TRUE)
    /\ db' = Commit(db, sess, run.sid)
    /\ sess' = db'
    /\ pc' = "idle"
    /\ run' = NoRun
    /\ hist' = [hist EXCEPT ![run.sid] = IF @ = "raised" THEN "recovered" ELSE @]
    /\ lastExit' = [NoExit EXCEPT !.kind = "completed", !.sid = run.sid]
    /\ sweep' = IF sweep.active THEN [sweep EXCEPT !.queue = @ \ {run.sid}] ELSE sweep
    /\ UNCHANGED <<stored, cache, lastCall, callers>>
    /\ UNCHANGED <<trackerVars, serviceVars, analysisVars>>

\* an unexpected exception (or a kill) at any point of a run:
\* db_session.__exit__ rolls back, resolve_holdings_background logs the
\* exception and the thread ends; a sweep that made the call ends with it
RaiseUnexpected ==
    /\ pc # "idle"
    /\ sess' = db
    /\ pc' = "idle"
    /\ run' = NoRun
    /\ hist' = [hist EXCEPT ![run.sid] = "raised"]
    /\ lastExit' = [NoExit EXCEPT !.kind = "raised", !.sid = run.sid]
    /\ sweep' = NoSweep
    /\ UNCHANGED <<stored, db, cache, tracker, lastCall, callers>>
    /\ UNCHANGED <<trackerVars, serviceVars, analysisVars>>

\* the snapshots resolve_all_unresolved_holdings selects (lines 594-616)
SnapshotsToProcess(d, st) ==
    {SnapshotOf(h) : h \in {x \in Holdings :
                              /\ SnapshotOf(x) \in st
                              /\ IsUnresolvedFund(d[x]) \/ NeedsInfo(d[x])}}

\* resolve_all_unresolved_holdings, lines 593-618
StartSweep ==
    /\ pc = "idle"
    /\ ~sweep.active
    /\ LET sel     == SnapshotsToProcess(db, stored)
           crashed == {sid \in Snapshots : hist[sid] = "raised"}
       IN  IF sel = {}
           THEN /\ sweep' = sweep
                /\ lastExit' = [NoExit EXCEPT !.kind = "sweep_nothing",
                                              !.crashed = crashed]
           ELSE /\ sweep' = [active |-> TRUE, queue |-> sel, selected |-> sel,
                             crashed |-> crashed]
                /\ lastExit' = lastExit
    /\ UNCHANGED <<stored, db, sess, cache, tracker, pc, run, lastCall, hist, callers>>
    /\ UNCHANGED <<trackerVars, serviceVars, analysisVars>>

\* resolve_all_unresolved_holdings, lines 622-629: the loop is over
SweepReturn ==
    /\ pc = "idle"
    /\ sweep.active
    /\ sweep.queue = {}
    /\ sweep' = NoSweep
    /\ lastExit' = [NoExit EXCEPT !.kind = "sweep_done",
                                  !.selected = sweep.selected,
                                  !.crashed = sweep.crashed]
    /\ UNCHANGED <<stored, db, sess, cache, tracker, pc, run, lastCall, hist, callers>>
    /\ UNCHANGED <<trackerVars, serviceVars, analysisVars>>

Next ==
    \/ \E sid \in Snapshots : Upload(sid)
    \/ \E sid \in Snapshots : StartRun(sid)
    \/ ResolveNext
    \/ StoreResults
    \/ FetchParent
    \/ EnrichNext
    \/ Complete
    \/ RaiseUnexpected
    \/ StartSweep
    \/ SweepReturn

Spec == Init /\ [][Next]_vars

-----------------------------------------------------------------------------
(* Concurrent uploads: each upload_csv request starts a background thread  *)
(* that runs resolve_snapshot_holdings; the threads share the tracker.     *)

\* the variables of one orchestration run, left alone here
pipelineVars ==
    <<stored, db, sess, cache, pc, run, sweep, lastCall, hist, lastExit, callers>>

PhaseSteps == {"etf_resolution", "parent_info", "underlying_info"}

\* the symbol of the n-th holding that fails in a run
FailedSymbol(n) == SymbolOf((n % Cardinality(Holdings)) + 1)

\* upload_csv, lines 178-182: the thread is started whether or not another
\* run is active
SpawnResolver(t, sid) ==
    /\ orch[t].pc = "none"
    /\ \A u \in Threads : orch[u].sid # sid
    /\ orch' = [orch EXCEPT ![t] = [pc |-> "spawned", sid |-> sid]]
    /\ UNCHANGED <<tracker, logged, statusFile, pipelineVars, serviceVars, analysisVars>>

\* resolve_snapshot_holdings, lines 391-397: start_resolution
BeginResolution(t) ==
    /\ orch[t].pc = "spawned"
    /\ orch' = [orch EXCEPT ![t].pc = "running"]
    /\ tracker' = start_resolution(orch[t].sid, Cardinality(HoldingsIn(orch[t].sid)),
                                   EstimatedPerFund * Cardinality(
                                       {h \in HoldingsIn(orch[t].sid) :
                                            CsvAssetType(h) \in FundTypes}))
    /\ logged' = <<>>
    /\ statusFile' = _save_status(tracker')
    /\ UNCHANGED <<pipelineVars, serviceVars, analysisVars>>

\* an update_progress call of a running thread
ReportProgress(t) ==
    /\ orch[t].pc = "running"
    /\ tracker.api_calls + tracker.cached_hits < MaxUpdates
    /\ \E step \in PhaseSteps, cached \in BOOLEAN :
          tracker' = update_progress(tracker, step, cached)
    /\ statusFile' = _save_status(tracker')
    /\ UNCHANGED <<orch, logged, pipelineVars, serviceVars, analysisVars>>

\* a log_error call of a running thread
ReportError(t) ==
    /\ orch[t].pc = "running"
    /\ Len(logged) < MaxLogged
    /\ LET symbol == FailedSymbol(Len(logged))
           error  == "Failed to resolve underlying holdings"
       IN  /\ tracker' = log_error(tracker, symbol, error)
           /\ logged' = Append(logged, [symbol |-> symbol, error |-> error])
           /\ statusFile' = _save_status(tracker')
    /\ UNCHANGED <<orch, pipelineVars, serviceVars, analysisVars>>

\* resolve_snapshot_holdings, lines 499-503: complete_resolution(success=True)
FinishResolution(t) ==
    /\ orch[t].pc = "running"
    /\ orch' = [orch EXCEPT ![t] = NoThread]
    /\ tracker' = complete_resolution(tracker, TRUE)
    /\ statusFile' = _save_status(tracker')
    /\ UNCHANGED <<logged, pipelineVars, serviceVars, analysisVars>>

\* resolve_holdings_background, lines 235-240: an exception ends the thread
AbandonResolution(t) ==
    /\ orch[t].pc = "running"
    /\ orch' = [orch EXCEPT ![t] = NoThread]
    /\ UNCHANGED <<tracker, logged, statusFile, pipelineVars, serviceVars, analysisVars>>

\* the process is killed and started again: no thread survives, and the
\* import of resolution_tracker (line 266) loads the status file
Restart ==
    /\ \E t \in Threads : orch[t] # NoThread
    /\ orch' = [t \in Threads |-> NoThread]
    /\ tracker' = _load_status(statusFile)
    /\ UNCHANGED <<logged, statusFile, pipelineVars, serviceVars, analysisVars>>

TrackerNext ==
    \/ \E t \in Threads, sid \in Snapshots : SpawnResolver(t, sid)
    \/ \E t \in Threads : BeginResolution(t)
    \/ \E t \in Threads : ReportProgress(t)
    \/ \E t \in Threads : ReportError(t)
    \/ \E t \in Threads : FinishResolution(t)
    \/ \E t \in Threads : AbandonResolution(t)
    \/ Restart

TrackerSpec == Init /\ [][TrackerNext]_vars

-----------------------------------------------------------------------------
(* Concurrent get_stock_info calls on the global StockInfoService: the     *)
(* background threads of two uploads look tickers up at the same time.     *)
(* A call is split at its reads and writes of the shared fields and at     *)
(* its sleeps.                                                             *)

\* the variables of the orchestration run and of the tracker, left alone here
storeVars ==
    <<stored, db, sess, tracker, pc, run, sweep, lastCall, hist, lastExit, callers,
      trackerVars>>

\* the tickers looked up: one with a single variant, one with three
LookupSymbols == {"AAPL", "BRK.B"}

\* what one yf.Ticker(variant).info call does: usable data, nothing usable
\* (empty or incomplete info), or an exception
VariantOutcomes == {"ok", "noinfo", "raise"}

\* the service after earlier lookups in the current window, made MIN_DELAY
\* apart from time 0 on: `three` lookups of three-variant tickers, then
\* WarmSingles of one-variant tickers that answered; `counted` tells whether
\* the three-variant calls returned (and were counted) or raised
WarmService(three, counted) ==
    LET n     == three + WarmSingles
        t     == MIN_DELAY_SECONDS * (n - 1)
        made  == Len(TickerVariants("BRK.B")) * three + WarmSingles
        count == IF counted THEN made ELSE WarmSingles
    IN  [svc   |-> [last_request_time |-> t, request_count |-> count,
                    request_window_start |-> 0],
         clock |-> t,
         calls |-> [prev |-> t - MIN_DELAY_SECONDS, last |-> t, in_window |-> made,
                    counted |-> count, lookups |-> 0],
         cache |-> [[x \in Symbols |-> Absent] EXCEPT !["BRK.B"] = PlaceholderData]]

FreshService ==
    [svc |-> NewService, clock |-> 0, calls |-> NoCalls,
     cache |-> [x \in Symbols |-> Absent]]

ServiceInit ==
    /\ stored = {}
    /\ db = [h \in Holdings |-> NewHolding(h)]
    /\ sess = [h \in Holdings |-> NewHolding(h)]
    /\ tracker = IdleStatus
    /\ pc = "idle"
    /\ run = NoRun
    /\ sweep = NoSweep
    /\ lastCall = NoCall
    /\ hist = [sid \in Snapshots |-> "none"]
    /\ lastExit = NoExit
    /\ callers = {}
    /\ orch = [t \in Threads |-> NoThread]
    /\ logged = <<>>
    /\ statusFile = <<>>
    /\ req = [t \in Threads |-> NoRequest]
    /\ AnalysisInit
    /\ \E w \in {FreshService, WarmService(WarmLookups, TRUE),
                  WarmService(WarmRaised, FALSE)} :
          /\ svc = w.svc
          /\ clock = w.clock
          /\ calls = w.calls
          /\ cache = w.cache

\* get_stock_info, lines 326-346: the cache check and the variant list
BeginLookup(t, symbol) ==
    /\ req[t].pc = "idle"
    /\ calls.lookups < MaxLookups
    /\ calls' = [calls EXCEPT !.lookups = @ + 1]
    /\ req' = IF CacheHit(cache, symbol) THEN req
              ELSE [req EXCEPT ![t] = [NoRequest EXCEPT
                                          !.pc = "rate_limit",
                                          !.symbol = symbol,
                                          !.variants = TickerVariants(symbol)]]
    /\ UNCHANGED <<svc, clock, cache, storeVars, analysisVars>>

\* _check_rate_limit, lines 162-176, up to the sleep
CheckRateLimit(t) ==
    /\ req[t].pc = "rate_limit"
    /\ LET expired == clock - svc.request_window_start > SecondsPerHour
           s1      == IF expired
                      THEN [svc EXCEPT !.request_count = 0,
                                       !.request_window_start = clock]
                      ELSE svc
           wait    == s1.request_window_start + SecondsPerHour - clock
       IN  /\ svc' = s1
           /\ calls' = IF expired THEN [calls EXCEPT !.in_window = 0, !.counted = 0]
                       ELSE calls
           /\ req' = IF /\ s1.request_count >= REQUESTS_PER_HOUR - RateLimitBuffer
                        /\ wait > 0
                     THEN [req EXCEPT ![t].pc = "blocked", ![t].wake = clock + wait]
                     ELSE [req EXCEPT ![t].pc = "delay"]
    /\ UNCHANGED <<clock, cache, storeVars, analysisVars>>

\* _check_rate_limit, lines 177-180: after the sleep the window is reset
WakeFromBlock(t) ==
    /\ req[t].pc = "blocked"
    /\ clock >= req[t].wake
    /\ svc' = [svc EXCEPT !.request_count = 0, !.request_window_start = clock]
    /\ calls' = [calls EXCEPT !.in_window = 0, !.counted = 0]
    /\ req' = [req EXCEPT ![t].pc = "delay"]
    /\ UNCHANGED <<clock, cache, storeVars, analysisVars>>

\* _enforce_delay, lines 184-190: read last_request_time, sleep if needed
EnforceDelay(t) ==
    /\ req[t].pc = "delay"
    /\ LET since == clock - svc.last_request_time
       IN  IF since < MIN_DELAY_SECONDS
           THEN /\ req' = [req EXCEPT ![t].pc = "sleeping",
                                      ![t].wake = clock + (MIN_DELAY_SECONDS - since)]
                /\ svc' = svc
           ELSE /\ req' = [req EXCEPT ![t].pc = "calling"]
                /\ svc' = [svc EXCEPT !.last_request_time = clock]
    /\ UNCHANGED <<clock, cache, calls, storeVars, analysisVars>>

\* _enforce_delay, line 192, after the sleep
WakeFromDelay(t) ==
    /\ req[t].pc = "sleeping"
    /\ clock >= req[t].wake
    /\ svc' = [svc EXCEPT !.last_request_time = clock]
    /\ req' = [req EXCEPT ![t].pc = "calling"]
    /\ UNCHANGED <<clock, cache, calls, storeVars, analysisVars>>

\* the call is over: back to the caller
Returned(r) == [r EXCEPT !.pc = "idle"]

\* lines 423-450: on to the next variant, or to the fallback when none is left
NextVariant(t) ==
    IF Len(req[t].variants) > 1
    THEN [cache |-> cache,
          req   |-> [req EXCEPT ![t].pc = "calling", ![t].variants = Tail(@)]]
    ELSE [cache |-> [cache EXCEPT ![req[t].symbol] = FallbackResult(req[t].symbol)],
          req   |-> [req EXCEPT ![t] = Returned(@)]]

\* lines 359-363 and 423-426: yf.Ticker(variant).info; an exception goes to
\* the next variant, otherwise request_count is read for the increment
CallProvider(t) ==
    /\ req[t].pc = "calling"
    /\ calls' = [calls EXCEPT !.prev = calls.last, !.last = clock,
                              !.in_window = @ + 1]
    /\ \E outcome \in VariantOutcomes :
          IF outcome = "raise"
          THEN /\ req' = NextVariant(t).req
               /\ cache' = NextVariant(t).cache
          ELSE /\ req' = [req EXCEPT ![t].pc = "counting",
                                     ![t].count = svc.request_count,
                                     ![t].outcome = outcome]
               /\ cache' = cache
    /\ UNCHANGED <<svc, clock, storeVars, analysisVars>>

\* line 366 (the store of request_count += 1) and lines 368-421: usable
\* data is cached and returned, anything else goes to the next variant
CountRequest(t) ==
    /\ req[t].pc = "counting"
    /\ svc' = [svc EXCEPT !.request_count = req[t].count + 1]
    /\ calls' = [calls EXCEPT !.counted = @ + 1]
    /\ IF req[t].outcome = "ok" /\ IsCacheComplete(FetchedResult(req[t].symbol))
       THEN /\ cache' = [cache EXCEPT
                            ![req[t].symbol] = FetchedResult(req[t].symbol),
                            ![NormalizeTicker(req[t].symbol)] =
                                FetchedResult(req[t].symbol)]
            /\ req' = [req EXCEPT ![t] = Returned(@)]
       ELSE /\ cache' = NextVariant(t).cache
            /\ req' = NextVariant(t).req
    /\ UNCHANGED <<clock, storeVars, analysisVars>>

\* the threads that are in time.sleep
Sleepers == {t \in Threads : req[t].pc \in {"blocked", "sleeping"} /\ req[t].wake > clock}

\* time passes until the first sleeping thread is due
Tick ==
    /\ Sleepers # {}
    /\ clock' = CHOOSE w \in {req[t].wake : t \in Sleepers} :
                    \A t \in Sleepers : w <= req[t].wake
    /\ UNCHANGED <<svc, req, calls, cache, storeVars, analysisVars>>

\* nobody looks anything up until the window is over
Elapse ==
    /\ \A t \in Threads : req[t].pc = "idle"
    /\ calls.lookups < MaxLookups
    /\ clock <= svc.request_window_start + SecondsPerHour
    /\ clock' = svc.request_window_start + SecondsPerHour + 1
    /\ UNCHANGED <<svc, req, calls, cache, storeVars, analysisVars>>

ServiceNext ==
    \/ \E t \in Threads, symbol \in LookupSymbols : BeginLookup(t, symbol)
    \/ \E t \in Threads : CheckRateLimit(t)
    \/ \E t \in Threads : WakeFromBlock(t)
    \/ \E t \in Threads : EnforceDelay(t)
    \/ \E t \in Threads : WakeFromDelay(t)
    \/ \E t \in Threads : CallProvider(t)
    \/ \E t \in Threads : CountRequest(t)
    \/ Tick
    \/ Elapse

ServiceSpec == ServiceInit /\ [][ServiceNext]_vars


-----------------------------------------------------------------------------
(* Single calls of HoldingsResolver.resolve_holding: the arguments and the  *)
(* provider's answers are drawn at the start, the call applies the code.   *)

\* everything but the resolver call, left alone here
notFundVars ==
    <<stored, db, sess, cache, tracker, pc, run, sweep, lastCall, hist, lastExit,
      callers, trackerVars, serviceVars, accounts, snapshots, view, typeReq, typeRes,
      ingestVars>>

ResolverInit ==
    /\ BaseInit
    /\ accounts = <<>>
    /\ snapshots = <<>>
    /\ view = NoView
    /\ fundReq \in FundCalls
    /\ fundRes = NoFundResult
    /\ typeReq = NoTypeCall
    /\ typeRes = NoTypeResult
    /\ IngestInit

\* resolve_holding runs to its return
CallResolveHolding ==
    /\ fundRes.returned = "nothing"
    /\ fundRes' = ResolveHoldingOf(fundReq)
    /\ UNCHANGED <<fundReq, notFundVars>>

ResolverNext == CallResolveHolding

ResolverSpec == ResolverInit /\ [][ResolverNext]_vars

-----------------------------------------------------------------------------
(* Single calls of AssetTypeResolver.resolve *)

\* everything but the resolver call, left alone here
notTypeVars ==
    <<stored, db, sess, cache, tracker, pc, run, sweep, lastCall, hist, lastExit,
      callers, trackerVars, serviceVars, accounts, snapshots, view, fundReq, fundRes,
      ingestVars>>

TypeInit ==
    /\ BaseInit
    /\ accounts = <<>>
    /\ snapshots = <<>>
    /\ view = NoView
    /\ fundReq = NoFundCall
    /\ fundRes = NoFundResult
    /\ typeReq \in TypeCalls
    /\ typeRes = NoTypeResult
    /\ IngestInit

\* resolve runs to its return
CallResolve ==
    /\ typeRes = NoTypeResult
    /\ typeRes' = resolve(typeReq)
    /\ UNCHANGED <<typeReq, notTypeVars>>

TypeNext == CallResolve

TypeSpec == TypeInit /\ [][TypeNext]_vars

-----------------------------------------------------------------------------
(* Uploads, the phase-1 commit of their resolution runs, and dashboard      *)
(* requests that aggregate whatever is stored at the time.                 *)

\* everything but the stored portfolio and the aggregate, left alone here
notReadVars ==
    <<stored, db, sess, cache, tracker, pc, run, sweep, lastCall, hist, lastExit,
      callers, trackerVars, serviceVars, fundReq, fundRes, typeReq, typeRes,
      ingestVars>>

\* upload_csv, line 166: store_portfolio_data commits the account, the
\* snapshot and its holdings
UploadCsv(key, date, file) ==
    /\ Len(snapshots) < MaxSnapshots
    /\ LET after == store_portfolio_data(accounts, snapshots, key, date, file)
       IN  /\ accounts' = after[1]
           /\ snapshots' = after[2]
    /\ view' = NoView
    /\ UNCHANGED notReadVars

\* resolve_snapshot_holdings, lines 404-442: every unresolved fund of the
\* snapshot is resolved and the store loop's changes are committed at once
ResolveFunds(sid) ==
    /\ sid \in 1..Len(snapshots)
    /\ UnresolvedFunds(snapshots[sid]) # {}
    /\ \E answers \in [UnresolvedFunds(snapshots[sid]) -> FundData] :
          snapshots' = [snapshots EXCEPT ![sid].holdings =
              [k \in 1..Len(snapshots[sid].holdings) |->
                  LET row == snapshots[sid].holdings[k]
                  IN  IF k \in UnresolvedFunds(snapshots[sid])
                      THEN RowAfterResolution(row,
                              ResolveHoldingOf(
                                  [symbol |-> row.symbol, asset_type |-> row.asset_type,
                                   total_value |-> row.total_value,
                                   fe |-> answers[k].fe, fo |-> answers[k].fo,
                                   equity |-> answers[k].equity, all |-> answers[k].all]))
                      ELSE row]]
    /\ view' = NoView
    /\ UNCHANGED <<accounts, notReadVars>>

\* a dashboard request: get_current_holdings
Aggregate ==
    /\ \E tie \in TieBreaks : view' = get_aggregated_holdings(accounts, snapshots, tie)
    /\ UNCHANGED <<accounts, snapshots, notReadVars>>

AggregatorNext ==
    \/ \E key \in AccountKeys, date \in SnapshotDates, file \in CsvFiles :
          UploadCsv(key, date, file)
    \/ \E sid \in 1..MaxSnapshots : ResolveFunds(sid)
    \/ Aggregate

AggregatorSpec == Init /\ [][AggregatorNext]_vars

-----------------------------------------------------------------------------
(* The upload route (upload.py 43-205): one request from its checks to its  *)
(* response.                                                                *)

\* upload.py 29-35: the brokers a parser is registered for
PARSERS == {"merrill"}

Response(success, status, message) ==
    [success |-> success, status |-> status, message |-> message]

\* the requests: file_given tells a missing file part, an empty filename and
\* the extension; content tells what validate_csv and parse_csv make of the
\* file; store_raises tells whether the database fails during the store
UploadRequests ==
    [file_given : {"csv"}, broker : {"merrill"}, content : {"ok"},
     last4 : {"1111", "2222"}, date : SnapshotDates, holdings : CsvFiles,
     store_raises : BOOLEAN]
    \cup
    [file_given : {"missing", "unnamed", "txt", "csv"},
     broker : {None, "merrill", "fidelity"},
     content : {"invalid", "unparsable"},
     last4 : {"1111"}, date : {1}, holdings : {<<>>}, store_raises : {FALSE}]

\* lines 72-147: the checks that end the request with a 400 response, in
\* the order they are made; NoReply when all of them pass
Rejection(request) ==
    CASE request.file_given = "missing"  -> Response(FALSE, 400, "No file provided")
      [] request.broker = None           -> Response(FALSE, 400, "Broker name not specified")
      [] request.file_given = "unnamed"  -> Response(FALSE, 400, "No file selected")
      [] request.file_given = "txt"      -> Response(FALSE, 400, "Invalid file type")
      [] request.broker \notin PARSERS   -> Response(FALSE, 400, "Unsupported broker")
      [] request.content = "invalid"     -> Response(FALSE, 400, "Invalid CSV format")
      [] request.content = "unparsable"  -> Response(FALSE, 400, "Error parsing CSV")
      [] OTHER -> NoReply

\* lines 163-195: the store, the thread and the 200 response
Accepted(accts, snaps, thr, request) ==
    LET after == store_portfolio_data(accts, snaps, <<request.broker, request.last4>>,
                                      request.date, request.holdings)
        snapshot_id == Len(after[2])
    IN  [accounts |-> after[1], snapshots |-> after[2],
         started |-> thr \cup {snapshot_id},
         reply |-> Response(TRUE, 200, "Successfully uploaded")]

\* mutant: a file parse_csv fails on is rejected after what was read of it
\* has been stored
upload_csv_StoresBeforeRejecting(accts, snaps, thr, request) ==
    IF Rejection(request) # NoReply
    THEN IF request.content = "unparsable" /\ request.broker \in PARSERS
         THEN [Accepted(accts, snaps, thr, request) EXCEPT
                   !.started = thr, !.reply = Rejection(request)]
         ELSE [accounts |-> accts, snapshots |-> snaps, started |-> thr,
               reply |-> Rejection(request)]
    ELSE IF request.store_raises
    THEN [accounts |-> accts, snapshots |-> snaps, started |-> thr,
          reply |-> Response(FALSE, 500, "Server error")]
    ELSE Accepted(accts, snaps, thr, request)

\* upload_csv: the database, the threads started and the response after the
\* request; an exception of store_portfolio_data rolls the session back and
\* ends in the handler of line 200
upload_csv(accts, snaps, thr, request) ==
    IF Rejection(request) # NoReply
    THEN [accounts |-> accts, snapshots |-> snaps, started |-> thr,
          reply |-> Rejection(request)]
    ELSE IF request.store_raises
    THEN [accounts |-> accts, snapshots |-> snaps, started |-> thr,
          reply |-> Response(FALSE, 500, "Server error")]
    ELSE Accepted(accts, snaps, thr, request)

notUploadVars ==
    <<stored, db, sess, cache, tracker, pc, run, sweep, lastCall, hist, lastExit,
      callers, trackerVars, serviceVars, view, fundReq, fundRes, typeReq, typeRes,
      csvRow, parsed>>

\* one POST /upload request
HandleUpload(request) ==
    /\ Len(snapshots) < MaxSnapshots
    /\ LET after == upload_csv(accounts, snapshots, started, request)
       IN  /\ accounts' = after.accounts
           /\ snapshots' = after.snapshots
           /\ started' = after.started
           /\ reply' = after.reply
    /\ UNCHANGED notUploadVars

UploadNext == \E request \in UploadRequests : HandleUpload(request)

UploadSpec == Init /\ [][UploadNext]_vars

-----------------------------------------------------------------------------
(* The CSV parsers on a single row (merrill_csv_parser.py 297-618,         *)
(* fidelity_csv_parser.py 113-362).  Amounts are in cents.                 *)

\* one row of a broker's CSV: the cells the parsers read.  other_value is a
\* "$" amount in a column other than the value column, price_col the price
\* column, type the Type field (Fidelity only), detected what
\* detect_asset_type or _determine_asset_type answers for the row
CsvRows ==
    [parser : {"merrill", "fidelity"},
     symbol : {"", "AAPL", "TOTAL"},
     description : {"Held in Money Market", "APPLE INC"},
     quantity : {0, 10},
     value : {0 - 5000, 0, 5000},
     other_value : {0, 70000},
     price_col : {0, 600},
     type : {"", "Cash"},
     detected : {"stock"}]

\* the descriptions of CsvRows in which a cash keyword or phrase occurs
\* (merrill 603-608: 'MONEY MARKET'; fidelity 349-353: 'held in money market')
CashDescriptions == {"Held in Money Market"}

ParsedHolding(symbol, name, quantity, price, total_value, asset_type) ==
    [symbol |-> symbol, name |-> name, quantity |-> quantity, price |-> price,
     total_value |-> total_value, asset_type |-> asset_type]

\* MerrillCSVParser._is_cash_holding on the symbols and descriptions of CsvRows
MerrillIsCash(symbol, description) == description \in CashDescriptions

\* MerrillCSVParser._parse_row: <<>> for None, else <<the holding>>
MerrillParseRow(r) ==
    LET is_cash == MerrillIsCash(r.symbol, r.description)
        symbol  == IF r.symbol = "" /\ is_cash THEN "CASH" ELSE r.symbol
        q0      == IF r.quantity = 0 /\ is_cash THEN 1 ELSE r.quantity
        v0      == IF r.value = 0 /\ is_cash /\ r.other_value > 0
                   THEN r.other_value ELSE r.value
        name    == IF r.description # "" THEN r.description ELSE symbol
    IN  IF r.symbol \in {"TOTAL", "BALANCES", "CASH BALANCE", "PENDING ACTIVITY", "PENDING"}
        THEN <<>>
        ELSE IF r.symbol = "" /\ ~is_cash THEN <<>>
        ELSE IF r.quantity = 0 /\ ~is_cash THEN <<>>
        ELSE IF v0 = 0 THEN <<>>
        ELSE IF is_cash
        THEN <<ParsedHolding(symbol, name, 1, v0, v0, "cash")>>
        ELSE IF r.price_col > 0
        THEN <<ParsedHolding(symbol, name, q0, r.price_col, r.price_col * q0, r.detected)>>
        ELSE <<ParsedHolding(symbol, name, q0, v0 \div q0, v0, r.detected)>>

\* MerrillCSVParser.parse_csv, lines 338-347: the holdings kept
MerrillParseCsv(r) ==
    LET made == MerrillParseRow(r)
    IN  IF made # <<>> /\ made[1].total_value > 0 THEN made ELSE <<>>

\* FidelityCSVParser._is_cash_holding on the symbols and descriptions of CsvRows
FidelityIsCash(description, symbol, holding_type) ==
    \/ holding_type = "Cash"
    \/ description \in CashDescriptions

\* FidelityCSVParser._parse_row, lines 257-268: the entry appended to
\* self.cash_holdings, <<>> when none is
FidelityCashEntry(r) ==
    IF r.value = 0 /\ r.symbol = "" THEN <<>>
    ELSE IF FidelityIsCash(r.description, r.symbol, r.type) /\ r.value # 0
    THEN <<[description |-> r.description, symbol |-> r.symbol, value |-> r.value]>>
    ELSE <<>>

\* FidelityCSVParser._parse_row, lines 270-310: the entry appended to
\* self.holdings, <<>> when none is
FidelityHolding(r) ==
    IF r.value = 0 /\ r.symbol = "" THEN <<>>
    ELSE IF FidelityIsCash(r.description, r.symbol, r.type) THEN <<>>
    ELSE IF r.symbol = "" THEN <<>>
    ELSE <<ParsedHolding(r.symbol, r.description, r.quantity, r.price_col, r.value,
                         r.detected)>>

\* FidelityCSVParser._get_cash_as_holdings: cash.get('symbol', 'CASH') is the
\* entry's symbol, the key being present in every entry
_get_cash_as_holdings(cash_holdings) ==
    [i \in 1..Len(cash_holdings) |->
        ParsedHolding(cash_holdings[i].symbol, cash_holdings[i].description, 1,
                      cash_holdings[i].value, cash_holdings[i].value, "cash")]

\* FidelityCSVParser.parse, line 143
FidelityParse(r) == FidelityHolding(r) \o _get_cash_as_holdings(FidelityCashEntry(r))

ParserInit ==
    /\ BaseInit
    /\ accounts = <<>>
    /\ snapshots = <<>>
    /\ view = NoView
    /\ fundReq = NoFundCall
    /\ fundRes = NoFundResult
    /\ typeReq = NoTypeCall
    /\ typeRes = NoTypeResult
    /\ reply = NoReply
    /\ started = {}
    /\ csvRow \in CsvRows
    /\ parsed = NotParsed

notParseVars ==
    <<stored, db, sess, cache, tracker, pc, run, sweep, lastCall, hist, lastExit,
      callers, trackerVars, serviceVars, accounts, snapshots, view, fundReq, fundRes,
      typeReq, typeRes, reply, started>>

\* the parser of the row's broker parses a file holding this one row
ParseRow ==
    /\ ~parsed.made
    /\ parsed' = IF csvRow.parser = "merrill"
                 THEN [made |-> TRUE, row |-> MerrillParseRow(csvRow),
                       holdings |-> MerrillParseCsv(csvRow)]
                 ELSE [made |-> TRUE, row |-> FidelityParse(csvRow),
                       holdings |-> FidelityParse(csvRow)]
    /\ UNCHANGED <<csvRow, notParseVars>>

ParserNext == ParseRow

ParserSpec == ParserInit /\ [][ParserNext]_vars

-----------------------------------------------------------------------------
(* Properties *)

\* the run is past the commit that ends phase 1
AfterPhase1Commit == pc \in {"parent_info", "underlying_info", "complete"}

\* the run is past the commit that ends phase 2
AfterPhase2Commit == pc \in {"underlying_info", "complete"}

\* the tracker's error list has an entry for the symbol
ErrorLogged(symbol) ==
    \E i \in 1..Len(tracker.errors) : tracker.errors[i].symbol = symbol

\* C1: when an unexpected exception ends an orchestration run, the run has
\* reached a terminal tracker state: is_running is false and the error list
\* holds an entry for the exception.
C1_TerminalAfterException ==
    (pc = "idle" /\ lastExit.kind = "raised") =>
        (~tracker.is_running /\ tracker.errors # <<>>)

C3_ResumedRunResolves ==
    \A sid \in Snapshots : hist[sid] = "recovered" => FullyResolved(db, sid)

\* C3 witness: a run completed after a crashed run of a snapshot whose fund
\* has a stored constituent list.
C3_Witness ==
    /\ hist[1] = "recovered"
    /\ lastExit.kind = "completed"
    /\ db[1].underlying_holdings # <<>>

\* C4: when a sweep returns, every snapshot whose run had crashed is fully
\* resolved: constituent resolution, parent enrichment and constituent
\* enrichment are complete.
C4_SweepFinishesCrashedRuns ==
    (pc = "idle" /\ lastExit.kind \in {"sweep_done", "sweep_nothing"}) =>
        \A sid \in lastExit.crashed : FullyResolved(db, sid)

\* C5: parent lookups run only when every resolver call of the run has
\* returned and the phase 1 results are committed; constituent lookups run
\* only when every parent lookup has returned and is committed.
C5_PhasesInOrder ==
    /\ pc = "parent_info" =>
          /\ run.rIdx = Len(run.etf_mf)
          /\ \A h \in Range(run.etf_mf) :
                /\ db[h].underlying_parsed
                /\ db[h].underlying_holdings = sess[h].underlying_holdings
                /\ db[h].asset_type = sess[h].asset_type
    /\ pc = "underlying_info" =>
          /\ run.rIdx = Len(run.etf_mf)
          /\ run.nIdx = Len(run.need)
          /\ \A h \in HoldingsIn(run.sid) :
                /\ db[h].info_fetched
                /\ db[h].sector = sess[h].sector
                /\ db[h].industry = sess[h].industry
                /\ db[h].country = sess[h].country

\* C5 witness: one run in phase 3 that went through phase 1 and phase 2.
C5_Witness ==
    /\ pc = "underlying_info"
    /\ run.etf_mf # <<>>
    /\ Len(run.need) = 2

\* C6: the fund-data provider is never asked about a holding whose stored
\* underlying_parsed flag is true.
C6_NoResolveOnceParsed ==
    lastCall.kind = "fund" => ~lastCall.stored_flag

\* C6 witness: a run over a fund that an earlier run gave up on ends
\* without a resolver call.
C6_Witness ==
    /\ pc = "complete"
    /\ run.sid = 1
    /\ db[1].underlying_parsed
    /\ db[1].underlying_holdings = <<>>
    /\ run.etf_mf = <<>>
    /\ ~run.fundCalled

\* C7: no sector/country lookup is made for a holding whose stored
\* info_fetched flag is true.
C7_NoLookupOnceFetched ==
    lastCall.kind = "parent" => ~lastCall.stored_flag

\* C7 witness: a later run over holdings whose info was fetched before goes
\* to its end without a parent lookup, the last lookup being an earlier one.
C7_Witness ==
    /\ pc = "complete"
    /\ run.sid = 2
    /\ run.need = <<>>
    /\ db[3].info_fetched
    /\ lastCall.kind = "parent"
    /\ lastCall.holding = 3

\* C8: after the commit that ends phase 1, every fund holding that was
\* unresolved at the start of the run has underlying_parsed = true in the
\* store, whatever the resolver returned.
C8_GiveUp ==
    AfterPhase1Commit =>
        \A h \in Range(run.etf_mf) : db[h].underlying_parsed

\* C8 witness: the resolver returned None for a fund and the phase 1 commit
\* is done.
C8_Witness ==
    /\ pc = "parent_info"
    /\ run.nIdx = 0
    /\ run.outcome[1] = "raised"
    /\ ~InResults(run.results[1])
    /\ db[1].underlying_parsed

\* C9: after phase 1, the error list has an entry for every fund whose
\* resolution failed (not found, provider raised, or no usable holdings).
C9_FailureLogged ==
    AfterPhase1Commit =>
        \A h \in Range(run.etf_mf) :
            run.outcome[h] \in {"notfound", "raised", "empty"} =>
                ErrorLogged(SymbolOf(h))

C11_LookupFailureLogged ==
    AfterPhase2Commit =>
        \A h \in Range(run.need) :
            run.got[h] = PlaceholderData => ErrorLogged(SymbolOf(h))

\* the most recent call was a get_stock_info call
IsLookup == lastCall.kind \in {"parent", "constituent"}

\* an entry with a known sector or a known country
KnownSectorOrCountry(e) ==
    \/ e.sector \notin {None, "", "Unknown", "N/A"}
    \/ e.country \notin {None, "", "Unknown", "N/A"}

\* C12: a get_stock_info call for a symbol whose cached entry has a known
\* sector or a known country returns that entry, makes no call to the
\* provider and leaves the entry in the cache.
C12_NoRefetchOfCompleteEntry ==
    (IsLookup /\ KnownSectorOrCountry(lastCall.before)) =>
        /\ ~lastCall.called
        /\ lastCall.result = lastCall.before
        /\ cache[lastCall.symbol] = lastCall.before

\* C12 witness: a lookup was answered from an entry that has a known country
\* and no known sector.
C12_Witness ==
    /\ IsLookup
    /\ lastCall.before.sector = "Unknown"
    /\ lastCall.before.country = "Japan"
    /\ ~lastCall.called

C19_CountersMatchLookups ==
    pc # "idle" =>
        /\ tracker.api_calls <= run.extCalls
        /\ tracker.cached_hits <= run.cacheServed

\* C16: every component that has called the market-data provider is the
\* StockInfoService.
C16_ProviderOnlyThroughService ==
    callers \subseteq {"StockInfoService"}

\* C17: at most one background thread is inside resolve_snapshot_holdings
\* at a time, and the tracker describes the snapshot of the running thread.
C17_RunsSerialized ==
    /\ Cardinality({t \in Threads : orch[t].pc = "running"}) <= 1
    /\ \A t \in Threads :
          orch[t].pc = "running" => tracker.snapshot_id = orch[t].sid

\* C20: the error list holds at most 50 entries, and they are the last
\* errors logged since the run started, in the order they were logged.
C20_LastFiftyErrors ==
    /\ Len(tracker.errors) <= 50
    /\ Len(tracker.errors) = (IF Len(logged) < 50 THEN Len(logged) ELSE 50)
    /\ \A i \in 1..Len(tracker.errors) :
          tracker.errors[i] = logged[Len(logged) - Len(tracker.errors) + i]

\* C20 witness: more than 50 errors were logged in one run and the list
\* holds the last 50.
C20_Witness ==
    /\ Len(logged) > 50
    /\ Len(tracker.errors) = 50
    /\ tracker.errors[50] = logged[Len(logged)]
    /\ tracker.errors[1] # logged[1]

\* C14: the two most recent calls to the market-data provider are at least
\* MIN_DELAY_SECONDS apart.
C14_MinDelayBetweenCalls ==
    calls.prev # NoTime => calls.last - calls.prev >= 2

\* C15: the calls made to the provider since the rate-limit window started
\* are at most the hourly budget.
C15_WithinHourlyBudget ==
    calls.in_window <= 2000

\* C18: no increment of the request counter is lost: request_count is the
\* number of provider calls that returned since the window started.
C18_NoLostIncrement ==
    svc.request_count = calls.counted

\* C27: resolve_holding returns None, and no other value, whenever it has
\* no constituent list to return (fund not found, no usable holdings data,
\* or a provider call that raised)
C27_NoneWithoutHoldings ==
    fundRes.returned # "nothing" =>
        \/ fundRes.returned = "None"
        \/ fundRes.has_list /\ fundRes.holdings # <<>>

\* C28: every returned constituent has value = round(weight * total_value, 2)
\* for the weight that is returned, and that weight lies in [0, 1]
C28_WeightValueConsistent ==
    \A i \in 1..Len(fundRes.holdings) :
        LET e == fundRes.holdings[i]
        IN  /\ e.weight >= 0
            /\ e.weight <= 1000000
            /\ e.value = EstimatedValue(fundReq.total_value, 10 * e.weight)

\* C29: the fund selected for a ticker is listed on a recognized exchange
C29_RecognizedExchangeOnly ==
    fundRes.returned = "dict" => fundRes.fund.exchange \in us_exchanges

\* the steps of the resolution order, by the source they report
ResolutionOrder ==
    <<"cache", "yfinance", "csv_type", "known_list", "description", "pattern", "default">>

\* the quote types the external lookup maps
QuoteTypeMap ==
    [q \in {"ETF", "MUTUALFUND", "EQUITY", "BOND", "OPTION"} |->
        CASE q = "ETF" -> "etf"
          [] q = "MUTUALFUND" -> "mutual_fund"
          [] q = "EQUITY" -> "stock"
          [] q = "BOND" -> "bond"
          [] q = "OPTION" -> "option"]

\* whether step k of the order has an answer for the call
StepMatches(k, c) ==
    LET s == SymbolUpper(c.symbol)
    IN  CASE k = 1 -> c.use_cache /\ c.service /\ c.cached # None
          [] k = 2 -> c.use_yfinance /\ c.yf /\ c.quote \in DOMAIN QuoteTypeMap
          [] k = 3 -> TypeLower(c.csv_type_field) \in
                        {"stock", "equity", "etf", "mutual fund", "mf", "bond", "bonds",
                         "fixed income", "option"}
          [] k = 4 -> s \in KNOWN_ETFS
          [] k = 5 -> KeywordsIn(c.description) \cap
                        {"etf", "exchange traded", "fund", "bond", "treasury"} # {}
          [] k = 6 -> \/ SymbolLen(s) = 5 /\ EndsWithX(s)
                      \/ SymbolLen(s) <= 4 /\ IsAlpha(s)
          [] k = 7 -> TRUE

\* C30: resolve answers from the first step of the order cache, quote-type
\* lookup, CSV type field, known-ETF list, description, symbol shape, default
\* that matches; a lookup that raises or is unavailable is skipped and the
\* answer comes from the CSV type field onward
C30_FirstMatchingStep ==
    typeRes # NoTypeResult =>
        /\ \E k \in 1..7 :
              /\ typeRes.source = ResolutionOrder[k]
              /\ StepMatches(k, typeReq)
              /\ \A j \in 1..(k - 1) : ~StepMatches(j, typeReq)
        /\ typeRes.source = "cache" => typeRes.asset_type = typeReq.cached
        /\ typeRes.source = "yfinance" => typeRes.asset_type = QuoteTypeMap[typeReq.quote]
        /\ typeRes.source \in {"known_list"} => typeRes.asset_type = "etf"
        /\ typeRes.source = "default" => typeRes.asset_type = "stock"
        /\ (typeReq.quote = "raise" \/ ~typeReq.yf \/ ~typeReq.use_yfinance) =>
              typeRes.source # "yfinance"

\* the quote-type lookup raised after a cache miss and the CSV type field
\* decided
C30_Witness ==
    /\ typeRes.source = "csv_type"
    /\ typeReq.use_yfinance /\ typeReq.yf /\ typeReq.quote = "raise"
    /\ typeReq.use_cache /\ typeReq.service /\ typeReq.cached = None

\* the rows of the snapshots an aggregate was built from
SelectedRows == HoldingRefs(snapshots, view.selected)

\* the constituent records of the fund rows among them
SelectedConstituents ==
    Concat([n \in 1..Len(SelectedRows) |->
               LET row == RowAt(snapshots, SelectedRows[n])
               IN  IF row.asset_type \in FundTypes THEN row.underlying_holdings ELSE <<>>])

\* C21: the aggregate is built from exactly one snapshot per active account
\* that has a snapshot, the one with the greatest snapshot_date
C21_OneLatestSnapshotPerAccount ==
    view.made =>
        \A a \in 1..Len(accounts) :
            LET chosen == {i \in Range(view.selected) : snapshots[i].broker_account_id = a}
            IN  IF accounts[a].is_active /\ SnapshotsOf(snapshots, a) # {}
                THEN /\ Cardinality(chosen) = 1
                     /\ \A i \in chosen, j \in SnapshotsOf(snapshots, a) :
                            snapshots[j].snapshot_date <= snapshots[i].snapshot_date
                ELSE chosen = {}

\* C22: underlying_holdings[s].total_value is the sum of the stored
\* constituent values of s over every fund holding of the selected
\* snapshots, with one source entry per contributing record
C22_UnderlyingTotals ==
    view.made =>
        /\ DOMAIN view.underlying_holdings =
              {SelectedConstituents[i].symbol : i \in 1..Len(SelectedConstituents)}
        /\ \A s \in DOMAIN view.underlying_holdings :
              LET mine == SelectSeq(SelectedConstituents, LAMBDA e : e.symbol = s)
              IN  /\ view.underlying_holdings[s].total_value =
                        SumOf([i \in 1..Len(mine) |-> mine[i].value])
                  /\ Len(view.underlying_holdings[s].sources) = Len(mine)

\* C23: a symbol is in overlaps exactly if it has positive value in the
\* direct map and positive value in the underlying map
C23_OverlapSymmetry ==
    (view.made /\ "overlaps" \in DOMAIN view) =>
        \A s \in (DOMAIN view.direct_holdings) \cup (DOMAIN view.underlying_holdings) :
            s \in DOMAIN view.overlaps <=>
                /\ s \in DOMAIN view.direct_holdings
                /\ s \in DOMAIN view.underlying_holdings
                /\ view.direct_holdings[s].value > 0
                /\ view.underlying_holdings[s].total_value > 0

\* the selected rows of a fund
FundRows(f) ==
    SelectSeq(SelectedRows, LAMBDA r : /\ RowAt(snapshots, r).symbol = f
                                       /\ RowAt(snapshots, r).asset_type \in FundTypes)

C25_CashPlusInvestments ==
    view.made =>
        /\ view.total_cash + view.total_investments = view.total_value
        /\ Len(view.cash_holdings) + Len(view.investment_holdings) = Len(view.holdings)
        /\ \A i \in 1..Len(view.holdings) :
              (view.holdings[i] \in Range(view.cash_holdings))
                 # (view.holdings[i] \in Range(view.investment_holdings))

\* an aggregate with cash and with investments
C25_Witness ==
    /\ view.made
    /\ view.total_cash > 0
    /\ view.total_investments > 0

\* the keys of the dashboard read model
RequiredKeys ==
    {"total_value", "holdings", "direct_holdings", "underlying_holdings", "overlaps",
     "total_cash", "total_investments", "cash_holdings", "investment_holdings"}

\* C26: every result has the same structure, for an empty portfolio too
C26_StableStructure ==
    view.made => RequiredKeys \subseteq DOMAIN view

\* C35: for every aggregated symbol total_value and total_quantity are the
\* sums over its brokers entries, there is one entry per holding of the
\* symbol in the selected snapshots, and the result's total_value is the
\* sum of total_value over all holdings of the selected snapshots
C35_SymbolSums ==
    view.made =>
        /\ \A i \in 1..Len(view.holdings) :
              LET h      == view.holdings[i]
                  theirs == SelectSeq(SelectedRows,
                                      LAMBDA r : RowAt(snapshots, r).symbol = h.symbol)
              IN  /\ h.total_value = SumOf([j \in 1..Len(h.brokers) |-> h.brokers[j].value])
                  /\ h.total_quantity =
                        SumOf([j \in 1..Len(h.brokers) |-> h.brokers[j].quantity])
                  /\ Len(h.brokers) = Len(theirs)
        /\ view.total_value =
              SumOf([n \in 1..Len(SelectedRows) |-> RowAt(snapshots, SelectedRows[n]).total_value])

\* an aggregate in which one symbol is held in two selected snapshots
C35_Witness ==
    /\ view.made
    /\ \E i \in 1..Len(view.holdings) : Len(view.holdings[i].brokers) = 2
    /\ Len(view.holdings) > 1

\* C38: a run that completes successfully leaves the tracker with
\* parent_symbols_processed = parent_symbols_total and
\* underlying_symbols_processed = underlying_symbols_total, so nothing remains.
C38_CompleteMeansAllProcessed ==
    tracker.current_step = "complete" =>
        /\ tracker.parent_symbols_processed = tracker.parent_symbols_total
        /\ tracker.underlying_symbols_processed = tracker.underlying_symbols_total

\* C37: in every committed database state a holding whose constituent list
\* is not empty has underlying_parsed = true.
C37_ListImpliesParsed ==
    \A h \in Holdings :
        db[h].underlying_holdings # <<>> => db[h].underlying_parsed

\* a run raised after the constituents of a fund had been committed
C37_Witness ==
    \E h \in Holdings :
        /\ db[h].underlying_holdings # <<>>
        /\ hist[SnapshotOf(h)] = "raised"

\* C34: no step of a run calls an external provider while the session holds
\* changes to holdings that are not committed; whatever was written before the
\* call is in the database when the call starts.
C34_NoCallWithUncommittedChanges ==
    [][run'.extCalls > run.extCalls => sess = db]_vars

\* the columns of a Holding that come from the CSV line, asset_type aside
SameCsvColumns(old, new) ==
    /\ new.symbol = old.symbol
    /\ new.name = old.name
    /\ new.quantity = old.quantity
    /\ new.price = old.price
    /\ new.total_value = old.total_value
    /\ new.account_type = old.account_type

\* C33 as stated: no step of a run changes symbol, name, quantity, price,
\* total_value, asset_type or account_type of a Holding, in the session or
\* in the database.
C33_FrameWithAssetType ==
    [][\A h \in Holdings :
          /\ SameCsvColumns(sess[h], sess'[h]) /\ SameCsvColumns(db[h], db'[h])
          /\ sess'[h].asset_type = sess[h].asset_type
          /\ db'[h].asset_type = db[h].asset_type]_vars

\* C33, amended: no step of a run changes symbol, name, quantity, price,
\* total_value or account_type of a Holding; asset_type changes only in the
\* store loop of phase 1, where the asset_type of a fund this run resolved is
\* replaced by the verified type of its result.
C33_Frame ==
    [][\A h \in Holdings :
          /\ SameCsvColumns(sess[h], sess'[h]) /\ SameCsvColumns(db[h], db'[h])
          /\ sess'[h].asset_type # sess[h].asset_type =>
                /\ pc = "etf_resolution"
                /\ sess[h].asset_type \in FundTypes
                /\ InResults(run.results[h])
                /\ sess'[h].asset_type = run.results[h].verified_asset_type
          /\ db'[h].asset_type # db[h].asset_type =>
                db'[h].asset_type = sess'[h].asset_type]_vars

\* a completed run has enriched a holding and replaced the asset_type of a fund
C33_Witness ==
    /\ \E h \in Holdings : db[h].asset_type # CsvAssetType(h)
    /\ \E h \in Holdings : db[h].info_fetched /\ db[h].underlying_holdings # <<>>

\* constituent record new is old with nothing but the four enrichment keys
\* written, and those only if old lacks sector data
EnrichedOnly(old, new) ==
    /\ new.symbol = old.symbol
    /\ new.name = old.name
    /\ new.weight = old.weight
    /\ new.value = old.value
    /\ HasSectorData(old) => new = old

\* C36: a step of phase 3 leaves every fund's constituent list, in the list
\* being enriched, in the session and in the database, with the same records
\* in the same order; of a record
\* it changes only sector, industry, country and geography, and only when the
\* record lacked sector data.
C36_EnrichmentFrame ==
    [][pc = "underlying_info" =>
          /\ (pc' = "underlying_info" /\ run'.fIdx = run.fIdx) =>
                /\ Len(run'.ulist) = Len(run.ulist)
                /\ \A i \in 1..Len(run.ulist) : EnrichedOnly(run.ulist[i], run'.ulist[i])
          /\ \A h \in Holdings :
              /\ Len(sess'[h].underlying_holdings) = Len(sess[h].underlying_holdings)
              /\ Len(db'[h].underlying_holdings) = Len(db[h].underlying_holdings)
              /\ \A i \in 1..Len(sess[h].underlying_holdings) :
                    EnrichedOnly(sess[h].underlying_holdings[i],
                                 sess'[h].underlying_holdings[i])
              /\ \A i \in 1..Len(db[h].underlying_holdings) :
                    EnrichedOnly(db[h].underlying_holdings[i],
                                 db'[h].underlying_holdings[i])]_vars

\* phase 3 has committed a two-constituent list in which one record was
\* enriched and the other already had sector data from an earlier run
C36_Witness ==
    /\ pc = "underlying_info"
    /\ \E h \in Holdings :
          /\ Len(db[h].underlying_holdings) = 2
          /\ \E i, j \in 1..2 :
                /\ i # j
                /\ HasSectorData(db[h].underlying_holdings[i])
                /\ ~HasSectorData(db[h].underlying_holdings[j])

\* C39: the status a restarted process loads never says is_running = true,
\* since no orchestration run is in progress after a restart.
C39_NotRunningAfterRestart ==
    [][Restart => ~tracker'.is_running]_vars

\* C32: a request that ends with a failure response leaves the accounts, the
\* snapshots and their holdings as they were and starts no resolution thread.
C32_RejectedUploadPersistsNothing ==
    [][~reply'.success =>
          /\ accounts' = accounts
          /\ snapshots' = snapshots
          /\ started' = started]_vars

\* an upload was rejected with status 400 after another had been stored
C32_Witness ==
    /\ reply.status = 400
    /\ reply.message \in {"Invalid CSV format", "Error parsing CSV"}
    /\ Len(snapshots) = 1
    /\ started = {1}

\* the row of the cash scenario: no symbol, the description "Held in Money
\* Market" and a value that is not zero
IsMoneyMarketRow(r) ==
    r.symbol = "" /\ r.description = "Held in Money Market" /\ r.value # 0

\* the holding the scenario asks for
IsCashHolding(h) ==
    h.asset_type = "cash" /\ h.symbol = "CASH" /\ h.quantity = 1 /\ h.price = h.total_value

\* C31: each parser makes of a row with an empty symbol, the description
\* "Held in Money Market" and a non-zero value exactly one holding, with
\* asset_type cash, symbol CASH, quantity 1 and price = total_value.
C31_CashRow ==
    (parsed.made /\ IsMoneyMarketRow(csvRow)) =>
        /\ Len(parsed.row) = 1
        /\ IsCashHolding(parsed.row[1])

\* C31 for the Merrill parser alone
C31_MerrillCashRow ==
    (parsed.made /\ IsMoneyMarketRow(csvRow) /\ csvRow.parser = "merrill") =>
        /\ Len(parsed.row) = 1
        /\ IsCashHolding(parsed.row[1])

====
